---- MODULE Spec2Model ----
(***************************************************************************)
(* Keepshot: the change-detection pipeline.                                *)
(*                                                                         *)
(*   app/services/scheduler.py  check_bookmarks_job (the periodic tick)    *)
(*   app/services/monitor.py    monitor_bookmark    (one check of an item) *)
(*   app/services/ai.py         AIService           (extractor, analyzer)  *)
(*   app/services/scraper.py    ContentScraper      (the fetch)            *)
(*   app/main.py                ConnectionManager   (live delivery)        *)
(*   app/services/notification.py  send_notification                       *)
(*                                                                         *)
(* A check is a coroutine: it is modelled with one action per stretch of   *)
(* code between two awaits (asyncio runs such a stretch without            *)
(* interleaving).  Every db.commit() may raise; the handler at             *)
(* monitor.py:191-194 then rolls the session back, which discards only     *)
(* what has not been committed yet.                                        *)
(*                                                                         *)
(* Scores are counted in tenths (0.5 is 5).  Time is counted in minutes;   *)
(* intervals and elapsed times are only ever compared with >=.             *)
(***************************************************************************)
EXTENDS Integers, Sequences, FiniteSets, TLC

\* ------------------------------------------------------------------ bounds

MaxTime == 1
MaxTicks == 2
MaxDeliveries == 2
MaxTriggers == 1

Bookmarks == {1, 2, 3}

\* ------------------------------------------------- program constants

\* Settings.max_concurrent_checks: an environment setting (default 10),
\* taken small here so that a tick can select more items than the capacity.
max_concurrent_checks == 2

\* monitor.py:153, the literal 0.5, in tenths.
NOTIFY_THRESHOLD == 5

\* ai.py:152 and monitor.py:128, the default 0.5, in tenths.
DEFAULT_SCORE == 5

\* The range a significance score is documented to lie in (change.py:26,
\* ai.py:88), in tenths.
SCORE_MIN == 0
SCORE_MAX == 10

None == <<>>
Some(x) == <<x>>

\* ------------------------------------------------------ the fetched content

\* A page's text is its first 500 characters (head) and the rest (tail).
Contents ==
    { [head |-> "h1", tail |-> ""], [head |-> "h2", tail |-> "t2"] }

\* scraper.py: hashlib.sha256(text.encode()).hexdigest(); distinct texts are
\* taken to have distinct digests.
ContentHash(content) == <<"sha256", content.head, content.tail>>

\* ContentScraper.scrape: the dictionary it returns (metadata left out: the
\* pipeline only stores it).
Scrape(content) == [content |-> content, content_hash |-> ContentHash(content)]

\* What the model records for a scrape that raised.
ScrapeError == <<"error", "", "">>

NoScrape == [content |-> [head |-> "", tail |-> ""], content_hash |-> <<"none", "", "">>]

\* ------------------------------------------------------------ watchpoints

Wp(name, value) == [field_name |-> name, field_value |-> value, is_primary |-> FALSE]

\* What the language model may answer to an extraction: one field, two
\* fields, the same fields in another order with other values, the same name
\* twice.
WatchpointLists ==
    { << Wp("price", "$10") >>,
      << Wp("price", "$10"), Wp("title", "$10") >>,
      << Wp("title", "$9"), Wp("price", "$9") >>,
      << Wp("price", "$9"), Wp("price", "$10") >> }

\* Variant: no field at all when the extraction failed.
FallbackWatchpoints_Empty(content) == <<>>

\* ai.py:69-78: the fallback watchpoint, content[:500].
FallbackWatchpoints(content) ==
    << [field_name |-> "content", field_value |-> content.head, is_primary |-> TRUE] >>

\* AIService.extract_watchpoints: the answer's list, or the fallback when
\* anything in the call raised.
ExtractWatchpoints(content, failed, answer) ==
    IF failed THEN FallbackWatchpoints(content) ELSE answer

\* ---------------------------------------------------------------- analyzer

\* What the language model may answer to a significance question: the JSON
\* object is returned as parsed (ai.py:137-146), keys possibly missing, the
\* score possibly outside [0, 10], the change type any of those the prompt
\* offers (ai.py:112-117).
AnalyzerAnswers ==
    { [significance_score |-> 3,  change_type |-> "modified"],
      [significance_score |-> 12, change_type |-> "increase"],
      [change_type |-> "removed"] }

\* Variant: a failed analysis counts as a minor change.
AnalysisFallback_Minor ==
    [significance_score |-> 3, change_type |-> "modified",
     reasoning |-> "Could not analyze change"]

\* ai.py:148-155
AnalysisFallback ==
    [significance_score |-> DEFAULT_SCORE, change_type |-> "modified",
     reasoning |-> "Could not analyze change"]

\* AIService.analyze_change_significance
AnalyzeChangeSignificance(failed, answer) ==
    IF failed THEN AnalysisFallback ELSE answer

\* dict.get(key, default)
Get(d, key, default) == IF key \in DOMAIN d THEN d[key] ELSE default

\* --------------------------------------------------------------- generator

\* What the language model may answer to a request for a message: the JSON
\* object, keys possibly missing (ai.py:216).
GeneratorAnswers ==
    { [title |-> "Price drop", message |-> << "The price went down." >>],
      [title |-> "Price drop"] }

\* monitor.py:158: bookmark.title or bookmark.url or "Your bookmark".  The
\* first item has a title, the second only a URL, the third neither.
BookmarkTitle(b) ==
    IF b = 1 THEN "Shop" ELSE IF b = 2 THEN "http://b" ELSE "Your bookmark"

\* f"{bookmark_title} has changed."; "Your bookmark has changed." (ai.py:220)
\* is HasChanged("Your bookmark").
HasChanged(bookmark_title) == <<bookmark_title, " has changed.">>

\* Variant: the fallback is the answer's default message.
NotificationFallback_Generic(bookmark_title) ==
    [title |-> "Bookmark Updated", message |-> HasChanged("Your bookmark")]

\* ai.py:223-228
NotificationFallback(bookmark_title) ==
    [title |-> "Bookmark Updated", message |-> HasChanged(bookmark_title)]

\* AIService.generate_notification_message: the answer's title and message
\* with their defaults (ai.py:218-221), or the fallback when anything in the
\* call raised.  `failed` is not a key of the dictionary: it records which
\* of the two it was (for stating the claims).
GenerateNotificationMessage(bookmark_title, failed, answer) ==
    IF failed
    THEN [title |-> NotificationFallback(bookmark_title).title,
          message |-> NotificationFallback(bookmark_title).message,
          failed |-> TRUE]
    ELSE [title |-> Get(answer, "title", "Bookmark Updated"),
          message |-> Get(answer, "message", HasChanged("Your bookmark")),
          failed |-> FALSE]

\* ------------------------------------------------------------------- state

VARIABLES
    now,            \* datetime.utcnow(), in minutes
    ticks,          \* how many times the job has fired
    bookmarks,      \* table bookmarks: id -> row
    snapshots,      \* table snapshots (with their watchpoints): per item, in created_at order
    changes,        \* table changes: per item, in creation order
    notifications,  \* table notifications: per item, in creation order
    chk,            \* the locals of each monitor_bookmark call
    pre,            \* the rows of the item when its check began (for stating the claims)
    scrapes,        \* what scraper.scrape gave each time the check called it
    attempts,       \* how many times the tick has called monitor_bookmark for each item
    tick,           \* check_bookmarks_job: where it is, its bookmarks_to_check
    semaphore,      \* the value of the tick's asyncio.Semaphore
    task,           \* check_with_semaphore, per selected item
    active_connections,  \* ConnectionManager.active_connections: user -> list (<<>>: no key)
    endpoint,       \* websocket_endpoint, per websocket: where it is
    dlv,            \* the running (or last) send_personal_message call
    deliveries,     \* how many times send_personal_message has been called
    last_call,      \* the last call of connect or disconnect and how it ended
    manual,         \* the locals of the monitor_bookmark call a request has triggered
    session         \* the tick's Session: the rows added and not committed yet

vars ==
    <<now, ticks, bookmarks, snapshots, changes, notifications, chk, pre, scrapes,
      attempts, tick, semaphore, task, manual, session,
      active_connections, endpoint, dlv, deliveries, last_call>>

\* The state of the pipeline and the state of the connection manager.
pipeline_vars ==
    <<now, ticks, bookmarks, snapshots, changes, notifications, chk, pre, scrapes,
      attempts, tick, semaphore, task, manual, session>>

manager_vars == <<active_connections, endpoint, dlv, deliveries, last_call>>

\* ------------------------------------------------------------- the session

\* Variant: the rollback does not discard the pending rows.
Persist_KeepsPending(rows, pending, ok) == rows \o pending

\* db.add(rows) followed by db.commit(): the rows are persisted when the
\* commit succeeds; when it raises, the handler's db.rollback() discards them.
Persist(rows, pending, ok) == IF ok THEN rows \o pending ELSE rows

\* ------------------------------------------------------- monitor_bookmark

IdleCheck ==
    [pc |-> "idle", scraped |-> NoScrape, last_snapshot |-> 0, new_snapshot |-> 0,
     new_watchpoints |-> <<>>, old_watchpoints_map |-> <<>>, i |-> 0,
     changes_detected |-> <<>>, error |-> "none"]

\* The call a request triggers: its locals, the item and how many have been
\* triggered.
IdleManual == [l |-> IdleCheck, bookmark_id |-> 0, triggers |-> 0]

\* The rows of item b and the locals of its check, as one value the steps of
\* monitor_bookmark transform.
Ctx(b) ==
    [l |-> chk[b], snapshots |-> snapshots[b], changes |-> changes[b],
     notifications |-> notifications[b], last_checked_at |-> bookmarks[b].last_checked_at,
     user_id |-> bookmarks[b].user_id, id |-> b, bookmark_title |-> BookmarkTitle(b)]

\* Variant: the handler also stamps the item as checked.
Raise_TouchesTimestamp(x, err) ==
    [x EXCEPT !.l.pc = "failed", !.l.error = err, !.last_checked_at = Some(now)]

\* monitor.py:191-194: log, db.rollback(), raise.  Rows committed earlier in
\* the check stay.  err names the call that raised.
Raise(x, err) == [x EXCEPT !.l.pc = "failed", !.l.error = err]

\* Variant: the check returns without stamping the item.
UpdateLastChecked_Skips(x, ok) ==
    IF ok
    THEN [x EXCEPT !.l.pc = "done"]
    ELSE Raise(x, "commit timestamp")

\* bookmark.last_checked_at = datetime.utcnow(); db.commit(); return
\* (monitor.py:53-55, 95-97, 188-189)
UpdateLastChecked(x, ok) ==
    IF ok
    THEN [x EXCEPT !.last_checked_at = Some(now), !.l.pc = "done"]
    ELSE Raise(x, "commit timestamp")

\* Variant: the latest snapshot is updated in place instead of a new one
\* being added.
AfterScrape_Overwrites(x, scraped, ok) ==
    LET last == Len(x.snapshots)
        new_snapshot ==
            [content_hash |-> scraped.content_hash,
             extracted_content |-> scraped.content,
             watchpoints |-> <<>>]
    IN  IF last > 0 /\ x.snapshots[last].content_hash = scraped.content_hash
        THEN UpdateLastChecked(x, ok)
        ELSE IF ~ok
             THEN Raise(x, "commit snapshot")
             ELSE IF last = 0
                  THEN [x EXCEPT !.snapshots = << new_snapshot >>,
                                 !.l.pc = "extracting",
                                 !.l.scraped = scraped,
                                 !.l.last_snapshot = 0,
                                 !.l.new_snapshot = 1]
                  ELSE [x EXCEPT !.snapshots[last] = new_snapshot,
                                 !.l.pc = "extracting",
                                 !.l.scraped = scraped,
                                 !.l.last_snapshot = last,
                                 !.l.new_snapshot = last]

\* Variant: the item is stamped as checked as soon as the snapshot is stored.
AfterScrape_StampsEarly(x, scraped, ok) ==
    LET last == Len(x.snapshots)
        new_snapshot ==
            [content_hash |-> scraped.content_hash,
             extracted_content |-> scraped.content,
             watchpoints |-> <<>>]
    IN  IF last > 0 /\ x.snapshots[last].content_hash = scraped.content_hash
        THEN UpdateLastChecked(x, ok)
        ELSE IF ok
             THEN [x EXCEPT !.snapshots = Persist(@, <<new_snapshot>>, TRUE),
                            !.last_checked_at = Some(now),
                            !.l.pc = "extracting",
                            !.l.scraped = scraped,
                            !.l.last_snapshot = last,
                            !.l.new_snapshot = last + 1]
             ELSE Raise(x, "commit snapshot")

\* Variant: no test of the hash against the latest snapshot.
AfterScrape_NoFastPath(x, scraped, ok) ==
    LET last == Len(x.snapshots)
        new_snapshot ==
            [content_hash |-> scraped.content_hash,
             extracted_content |-> scraped.content,
             watchpoints |-> <<>>]
    IN  IF ok
        THEN [x EXCEPT !.snapshots = @ \o <<new_snapshot>>,
                       !.l.pc = "extracting",
                       !.l.scraped = scraped,
                       !.l.last_snapshot = last,
                       !.l.new_snapshot = last + 1]
        ELSE [x EXCEPT !.l.pc = "failed", !.l.error = "commit snapshot"]

\* monitor.py:41-68: the latest snapshot, the no-change test, the new snapshot.
AfterScrape(x, scraped, ok) ==
    LET last == Len(x.snapshots)   \* order_by(created_at.desc()).first(); 0 is None
        new_snapshot ==
            [content_hash |-> scraped.content_hash,
             extracted_content |-> scraped.content,
             watchpoints |-> <<>>]
    IN  IF last > 0 /\ x.snapshots[last].content_hash = scraped.content_hash
        THEN UpdateLastChecked(x, ok)
        ELSE IF ok
             THEN [x EXCEPT !.snapshots = Persist(@, <<new_snapshot>>, TRUE),
                            !.l.pc = "extracting",
                            !.l.scraped = scraped,
                            !.l.last_snapshot = last,
                            !.l.new_snapshot = last + 1]
             ELSE Raise([x EXCEPT !.snapshots = Persist(@, <<new_snapshot>>, FALSE)],
                        "commit snapshot")

\* The orders n rows can come in.
RowOrders(n) ==
    { f \in [1..n -> 1..n] : \A i, j \in 1..n : i # j => f[i] # f[j] }

\* monitor.py:100-102: db.query(WatchPoint).filter(...).all() has no ORDER BY;
\* the database returns the rows of the snapshot in an order of its choice.
QueryAll(rows) ==
    { [k \in DOMAIN rows |-> rows[f[k]]] : f \in RowOrders(Len(rows)) }

\* monitor.py:105: {wp.field_name: wp for wp in last_watchpoints}; a later
\* row of the same name replaces an earlier one.
OldWatchpointsMap(last_watchpoints) ==
    [n \in { last_watchpoints[k].field_name : k \in DOMAIN last_watchpoints } |->
        LET k == CHOOSE k \in DOMAIN last_watchpoints :
                    /\ last_watchpoints[k].field_name = n
                    /\ \A m \in DOMAIN last_watchpoints :
                          last_watchpoints[m].field_name = n => m <= k
        IN  last_watchpoints[k].field_value]

\* Variant: a field of a known name counts as changed whatever its value.
IsChanged_NameOnly(old_map, wp) == wp.field_name \in DOMAIN old_map

\* monitor.py:111-113: does new_watchpoints[j] differ from the old row of
\* its name?
IsChanged(old_map, wp) ==
    wp.field_name \in DOMAIN old_map /\ old_map[wp.field_name] # wp.field_value

\* Variant: the loop takes the changed watchpoints from the last backwards.
NextChanged_LastFirst(new_watchpoints, old_map, from) ==
    LET hits == { j \in from..Len(new_watchpoints) : IsChanged(old_map, new_watchpoints[j]) }
    IN  IF hits = {} THEN 0 ELSE CHOOSE j \in hits : \A k \in hits : j >= k

\* The for loop of monitor.py:110 from position `from`: the next position
\* whose watchpoint changed (where the loop awaits the analyzer), or 0.
NextChanged(new_watchpoints, old_map, from) ==
    LET hits == { j \in from..Len(new_watchpoints) : IsChanged(old_map, new_watchpoints[j]) }
    IN  IF hits = {} THEN 0 ELSE CHOOSE j \in hits : \A k \in hits : j <= k

\* Variant: the threshold itself does not count.
IsSignificant_Strict(c) == c.significance_score > NOTIFY_THRESHOLD

\* monitor.py:153
IsSignificant(c) == c.significance_score >= NOTIFY_THRESHOLD

\* monitor.py:150-155 and 187-189: after the loop.
AfterLoop(x, ok) ==
    LET significant_changes == SelectSeq(x.l.changes_detected, IsSignificant)
    IN  IF Len(x.l.changes_detected) > 0 /\ Len(significant_changes) > 0
        THEN [x EXCEPT !.l.pc = "generating"]
        ELSE UpdateLastChecked(x, ok)

\* The loop of monitor.py:110-148 resumed at position `from`.
ContinueLoop(x, from, ok) ==
    LET j == NextChanged(x.l.new_watchpoints, x.l.old_watchpoints_map, from)
    IN  IF j # 0
        THEN [x EXCEPT !.l.pc = "scoring", !.l.i = j]
        ELSE AfterLoop([x EXCEPT !.l.i = 0], ok)

\* Variant: the first-snapshot return comes before the watchpoint rows are
\* added.
AfterExtract_ReturnsBeforeRows(x, watchpoints_data, last_watchpoints, ok1, ok2) ==
    IF x.l.last_snapshot = 0
    THEN UpdateLastChecked(x, ok2)
    ELSE IF ~ok1
         THEN Raise(x, "commit watchpoints")
         ELSE ContinueLoop(
                [x EXCEPT !.snapshots[x.l.new_snapshot].watchpoints = watchpoints_data,
                          !.l.new_watchpoints = watchpoints_data,
                          !.l.old_watchpoints_map = OldWatchpointsMap(last_watchpoints)],
                1, ok2)

\* monitor.py:77-113: the watchpoint rows, the first-snapshot return, the
\* old rows (last_watchpoints: as the query returned them) and the start of
\* the loop.
AfterExtract(x, watchpoints_data, last_watchpoints, ok1, ok2) ==
    IF ~ok1
    THEN Raise([x EXCEPT !.snapshots[x.l.new_snapshot].watchpoints =
                            Persist(@, watchpoints_data, FALSE)],
               "commit watchpoints")
    ELSE LET x1 == [x EXCEPT !.snapshots[x.l.new_snapshot].watchpoints =
                                Persist(@, watchpoints_data, TRUE),
                             !.l.new_watchpoints = watchpoints_data]
         IN  IF x.l.last_snapshot = 0
             THEN UpdateLastChecked(x1, ok2)
             ELSE ContinueLoop(
                    [x1 EXCEPT !.l.old_watchpoints_map = OldWatchpointsMap(last_watchpoints)],
                    1, ok2)

\* monitor.py:127-128
ChangeType(analysis) == Get(analysis, "change_type", "modified")
SignificanceScore(analysis) == Get(analysis, "significance_score", DEFAULT_SCORE)

\* Variant: the change is attached to the old watchpoint's snapshot.
AfterAnalysis_AttachesOld(x, analysis, ok1, ok2) ==
    LET new_wp == x.l.new_watchpoints[x.l.i]
        change ==
            [snapshot |-> x.l.last_snapshot,
             watchpoint |-> x.l.i,
             field_name |-> new_wp.field_name,
             old_value |-> x.l.old_watchpoints_map[new_wp.field_name],
             new_value |-> new_wp.field_value,
             change_type |-> ChangeType(analysis),
             significance_score |-> SignificanceScore(analysis),
             fallback |-> (Get(analysis, "reasoning", "") = AnalysisFallback.reasoning)]
        detected ==
            [field_name |-> change.field_name,
             significance_score |-> change.significance_score,
             change_id |-> Len(x.changes) + 1]
    IN  IF ~ok1
        THEN Raise(x, "commit change")
        ELSE ContinueLoop(
               [x EXCEPT !.changes = Persist(@, <<change>>, TRUE),
                         !.l.changes_detected = Append(@, detected)],
               x.l.i + 1, ok2)

\* monitor.py:122-148, then the rest of the loop.
AfterAnalysis(x, analysis, ok1, ok2) ==
    LET new_wp == x.l.new_watchpoints[x.l.i]
        change ==
            [snapshot |-> x.l.new_snapshot,
             watchpoint |-> x.l.i,
             field_name |-> new_wp.field_name,
             old_value |-> x.l.old_watchpoints_map[new_wp.field_name],
             new_value |-> new_wp.field_value,
             change_type |-> ChangeType(analysis),
             significance_score |-> SignificanceScore(analysis),
             \* not a column: whether the analysis was the fallback of ai.py:148-155
             \* (for stating the claims)
             fallback |-> (Get(analysis, "reasoning", "") = AnalysisFallback.reasoning)]
        detected ==
            [field_name |-> change.field_name,
             significance_score |-> change.significance_score,
             change_id |-> Len(x.changes) + 1]
    IN  IF ~ok1
        THEN Raise([x EXCEPT !.changes = Persist(@, <<change>>, FALSE)], "commit change")
        ELSE ContinueLoop(
               [x EXCEPT !.changes = Persist(@, <<change>>, TRUE),
                         !.l.changes_detected = Append(@, detected)],
               x.l.i + 1, ok2)

\* Variant: the notification is linked to the first change detected.
AfterGenerate_FirstDetected(x, notification_data, ok) ==
    LET notification ==
            [user_id |-> x.user_id,
             bookmark_id |-> x.id,
             change_id |-> x.l.changes_detected[1].change_id,
             title |-> notification_data.title,
             message |-> notification_data.message,
             read |-> FALSE,
             generation_failed |-> notification_data.failed]
    IN  IF ok
        THEN [x EXCEPT !.notifications = Persist(@, <<notification>>, TRUE),
                       !.l.pc = "sending"]
        ELSE Raise([x EXCEPT !.notifications = Persist(@, <<notification>>, FALSE)],
                   "commit notification")

\* monitor.py:163-175: the notification row, linked to the first significant
\* change.
AfterGenerate(x, notification_data, ok) ==
    LET significant_changes == SelectSeq(x.l.changes_detected, IsSignificant)
        notification ==
            [user_id |-> x.user_id,
             bookmark_id |-> x.id,
             change_id |-> significant_changes[1].change_id,
             title |-> notification_data.title,
             message |-> notification_data.message,
             read |-> FALSE,
             \* not a column: whether the message is the fallback of ai.py:223-228
             generation_failed |-> notification_data.failed]
    IN  IF ok
        THEN [x EXCEPT !.notifications = Persist(@, <<notification>>, TRUE),
                       !.l.pc = "sending"]
        ELSE Raise([x EXCEPT !.notifications = Persist(@, <<notification>>, FALSE)],
                   "commit notification")

\* monitor.py:178-189: send_notification never raises (notification.py:41);
\* then the timestamp.
AfterSend(x, ok) == UpdateLastChecked(x, ok)

\* ---------------------------------------------------- check_bookmarks_job

\* Variant: the interval must have been exceeded.
NeedsCheck_Strict(bm, t) ==
    IF bm.last_checked_at = None
    THEN TRUE
    ELSE (t - bm.last_checked_at[1]) > bm.check_interval

\* scheduler.py:34-42: the interval test of one enabled row.
NeedsCheck(bm, t) ==
    IF bm.last_checked_at = None
    THEN TRUE
    ELSE (t - bm.last_checked_at[1]) >= bm.check_interval

\* Variant: an item whose last check failed is left out.
BookmarksToCheck_SkipsFailed(t) ==
    LET enabled == { b \in Bookmarks : bookmarks[b].monitoring_enabled = TRUE }
    IN  { b \in enabled : NeedsCheck(bookmarks[b], t) /\ chk[b].pc # "failed" }

\* scheduler.py:28-42: the query on monitoring_enabled, then the loop.
BookmarksToCheck(t) ==
    LET enabled == { b \in Bookmarks : bookmarks[b].monitoring_enabled = TRUE }
    IN  { b \in enabled : NeedsCheck(bookmarks[b], t) }

\* Variant: no limit.
CanAcquire_Always(value) == TRUE

\* asyncio.Semaphore.acquire does not wait while the value is positive.
CanAcquire(value) == value > 0

Rows(b) ==
    [snapshots |-> snapshots[b], changes |-> changes[b],
     notifications |-> notifications[b],
     last_checked_at |-> bookmarks[b].last_checked_at]

\* scheduler.py:23-66 up to the gather: the selection, the semaphore and one
\* check_with_semaphore per selected item.
TickStart ==
    /\ tick.pc = "idle"
    /\ ticks < MaxTicks
    /\ LET to_check == BookmarksToCheck(now)
       IN  /\ tick' = [pc |-> "gather", bookmarks_to_check |-> to_check]
           /\ task' = [b \in Bookmarks |-> IF b \in to_check THEN "waiting" ELSE "none"]
           /\ chk' = [b \in Bookmarks |-> IF b \in to_check THEN IdleCheck ELSE chk[b]]
           /\ scrapes' = [b \in Bookmarks |-> IF b \in to_check THEN <<>> ELSE scrapes[b]]
           /\ attempts' = [b \in Bookmarks |-> 0]
    /\ semaphore' = max_concurrent_checks
    /\ ticks' = ticks + 1
    /\ UNCHANGED <<now, bookmarks, snapshots, changes, notifications, pre, manual, session>>
    /\ UNCHANGED manager_vars

\* scheduler.py:56-58 and monitor.py:27-35: the slot is taken, the row is
\* found, the check awaits the scraper.
Acquire(b) ==
    /\ tick.pc = "gather"
    /\ task[b] = "waiting"
    /\ CanAcquire(semaphore)
    /\ semaphore' = semaphore - 1
    /\ task' = [task EXCEPT ![b] = "running"]
    /\ chk' = [chk EXCEPT ![b] = [IdleCheck EXCEPT !.pc = "fetching"]]
    /\ pre' = [pre EXCEPT ![b] = Rows(b)]
    /\ attempts' = [attempts EXCEPT ![b] = @ + 1]
    /\ UNCHANGED <<now, ticks, bookmarks, snapshots, changes, notifications, scrapes, tick,
                   manual, session>>
    /\ UNCHANGED manager_vars

Ended(pc) == pc \in {"done", "failed"}

\* Variant: the new snapshot is added to the session and left uncommitted
\* while the check awaits the extractor.
PendingAtAwait_SnapshotUncommitted(x) ==
    IF x.l.pc = "extracting"
    THEN << [table |-> "snapshots", bookmark_id |-> x.id, position |-> x.l.new_snapshot] >>
    ELSE <<>>

\* The rows the check has added to the session and not committed when it
\* suspends: none, since every db.add of monitor_bookmark is followed by
\* db.commit() before the next await (monitor.py:66-67, 87-90, 130-131,
\* 173-174), as is every assignment to last_checked_at (53-54, 95-96, 188-189).
PendingAtAwait(x) == <<>>

\* The rows of one item in one table without those at the given positions.
Without(rows, positions) ==
    LET kept(k) == Cardinality({ j \in 1..k : j \notin positions })
        n == kept(Len(rows))
    IN  [i \in 1..n |-> rows[CHOOSE k \in DOMAIN rows : k \notin positions /\ kept(k) = i]]

\* db.commit() and db.rollback() act on the whole Session, which the checks
\* of a tick share (scheduler.py:23, 58): a commit makes every pending row
\* permanent, the rollback of monitor.py:193 discards every pending row,
\* whichever check added it.  tables: a table as this step's own adds and
\* commits leave it; pending: the rows that were pending before the step.
AfterCommitOrRollback(tables, name, pending, failed) ==
    IF ~failed \/ pending = <<>>
    THEN tables
    ELSE [c \in Bookmarks |->
            Without(tables[c],
                    { pending[k].position : k \in { j \in DOMAIN pending :
                          pending[j].table = name /\ pending[j].bookmark_id = c } })]

\* Variant: the slot is given back only when the check returned.
Apply_KeepsSlotOnFailure(b, x) ==
    /\ chk' = [chk EXCEPT ![b] =
                 IF Ended(x.l.pc)
                 THEN [IdleCheck EXCEPT !.pc = x.l.pc, !.error = x.l.error]
                 ELSE x.l]
    /\ snapshots' = AfterCommitOrRollback([snapshots EXCEPT ![b] = x.snapshots],
                                          "snapshots", session, x.l.pc = "failed")
    /\ changes' = AfterCommitOrRollback([changes EXCEPT ![b] = x.changes],
                                        "changes", session, x.l.pc = "failed")
    /\ notifications' = AfterCommitOrRollback([notifications EXCEPT ![b] = x.notifications],
                                              "notifications", session, x.l.pc = "failed")
    /\ bookmarks' = [bookmarks EXCEPT ![b].last_checked_at = x.last_checked_at]
    /\ session' = PendingAtAwait(x)
    /\ IF x.l.pc = "done"
       THEN semaphore' = semaphore + 1
       ELSE UNCHANGED semaphore
    /\ IF Ended(x.l.pc)
       THEN task' = [task EXCEPT ![b] = IF x.l.pc = "failed" THEN "caught" ELSE "returned"]
       ELSE UNCHANGED task
    /\ UNCHANGED <<now, ticks, pre, attempts, tick, manual>>
    /\ UNCHANGED manager_vars

\* The rows and locals a step of monitor_bookmark leaves, written back; when
\* the call returned or raised, scheduler.py:56-64: the exception is caught
\* and logged, and leaving `async with` gives the slot back.
WriteBack(b, x) ==
    /\ chk' = [chk EXCEPT ![b] =
                 IF Ended(x.l.pc)
                 THEN [IdleCheck EXCEPT !.pc = x.l.pc, !.error = x.l.error]  \* the locals are gone
                 ELSE x.l]
    /\ snapshots' = AfterCommitOrRollback([snapshots EXCEPT ![b] = x.snapshots],
                                          "snapshots", session, x.l.pc = "failed")
    /\ changes' = AfterCommitOrRollback([changes EXCEPT ![b] = x.changes],
                                        "changes", session, x.l.pc = "failed")
    /\ notifications' = AfterCommitOrRollback([notifications EXCEPT ![b] = x.notifications],
                                              "notifications", session, x.l.pc = "failed")
    /\ bookmarks' = [bookmarks EXCEPT ![b].last_checked_at = x.last_checked_at]
    /\ session' = PendingAtAwait(x)
    /\ IF Ended(x.l.pc)
       THEN /\ semaphore' = semaphore + 1
            /\ task' = [task EXCEPT ![b] = IF x.l.pc = "failed" THEN "caught" ELSE "returned"]
       ELSE UNCHANGED <<semaphore, task>>
    /\ UNCHANGED <<now, ticks, pre, attempts, tick, manual>>

\* A step of monitor_bookmark that does not involve the connection manager.
Apply(b, x) ==
    /\ WriteBack(b, x)
    /\ UNCHANGED manager_vars

\* scraper.scrape raised (scraper.py:56-58).
ScrapeFails(b) ==
    /\ chk[b].pc = "fetching"
    /\ scrapes' = [scrapes EXCEPT ![b] = Append(@, ScrapeError)]
    /\ Apply(b, Raise(Ctx(b), "scrape"))

\* scraper.scrape returned.
Scraped(b, content, ok) ==
    /\ chk[b].pc = "fetching"
    /\ scrapes' = [scrapes EXCEPT ![b] = Append(@, ContentHash(content))]
    /\ Apply(b, AfterScrape(Ctx(b), Scrape(content), ok))

\* ai_service.extract_watchpoints returned.
Extracted(b, failed, answer, ok1, ok2) ==
    /\ chk[b].pc = "extracting"
    /\ \E last_watchpoints \in
            IF chk[b].last_snapshot = 0
            THEN { <<>> }
            ELSE QueryAll(snapshots[b][chk[b].last_snapshot].watchpoints) :
         Apply(b, AfterExtract(Ctx(b),
                    ExtractWatchpoints(chk[b].scraped.content, failed, answer),
                    last_watchpoints, ok1, ok2))
    /\ UNCHANGED scrapes

\* ai_service.analyze_change_significance returned.
Analyzed(b, failed, answer, ok1, ok2) ==
    /\ chk[b].pc = "scoring"
    /\ Apply(b, AfterAnalysis(Ctx(b), AnalyzeChangeSignificance(failed, answer), ok1, ok2))
    /\ UNCHANGED scrapes

\* ai_service.generate_notification_message returned.
Generated(b, failed, answer, ok) ==
    /\ chk[b].pc = "generating"
    /\ Apply(b, AfterGenerate(Ctx(b),
                  GenerateNotificationMessage(BookmarkTitle(b), failed, answer), ok))
    /\ UNCHANGED scrapes

\* send_notification returned.
Sent(b, ok) ==
    /\ chk[b].pc = "sending"
    /\ Apply(b, AfterSend(Ctx(b), ok))
    /\ UNCHANGED scrapes

\* scheduler.py:66-73: the gather returns once every task has ended.
TickEnd ==
    /\ tick.pc = "gather"
    /\ \A b \in tick.bookmarks_to_check : task[b] \in {"returned", "caught"}
    /\ tick' = [tick EXCEPT !.pc = "idle"]
    /\ UNCHANGED <<now, ticks, bookmarks, snapshots, changes, notifications, chk, pre,
                   scrapes, attempts, semaphore, task, manual, session>>
    /\ UNCHANGED manager_vars

\* Time passes.
Advance ==
    /\ now < MaxTime
    /\ now' = now + 1
    /\ UNCHANGED <<ticks, bookmarks, snapshots, changes, notifications, chk, pre, scrapes,
                   attempts, tick, semaphore, task, manual, session>>
    /\ UNCHANGED manager_vars

\* ------------------------------------------------- trigger_bookmark_check

\* The rows of the item a triggered call checks and the locals of the call.
CtxManual ==
    LET b == manual.bookmark_id
    IN  [l |-> manual.l, snapshots |-> snapshots[b], changes |-> changes[b],
         notifications |-> notifications[b],
         last_checked_at |-> bookmarks[b].last_checked_at,
         user_id |-> bookmarks[b].user_id, id |-> b, bookmark_title |-> BookmarkTitle(b)]

\* The rows and locals a step of the triggered call leaves, written back.
\* The call is a background task of the request (routers/bookmarks.py:262):
\* it takes no slot of a tick's semaphore, and no tick awaits it.
WriteBackManual(x) ==
    LET b == manual.bookmark_id
    IN  /\ manual' = [manual EXCEPT !.l =
                         IF Ended(x.l.pc)
                         THEN [IdleCheck EXCEPT !.pc = x.l.pc, !.error = x.l.error]
                         ELSE x.l]
        /\ snapshots' = [snapshots EXCEPT ![b] = x.snapshots]
        /\ changes' = [changes EXCEPT ![b] = x.changes]
        /\ notifications' = [notifications EXCEPT ![b] = x.notifications]
        /\ bookmarks' = [bookmarks EXCEPT ![b].last_checked_at = x.last_checked_at]
        /\ UNCHANGED <<now, ticks, chk, pre, scrapes, attempts, tick, semaphore, task,
                       session>>
        /\ UNCHANGED manager_vars

\* POST /bookmarks/{bookmark_id}/check (routers/bookmarks.py:238-266) for an
\* item of the caller: monitor_bookmark is started for it with the request's
\* own session and awaits the scraper (monitor.py:27-35).
Trigger(b) ==
    /\ ~(manual.l.pc \in {"fetching", "extracting", "scoring", "generating", "sending"})
    /\ manual.triggers < MaxTriggers
    /\ manual' = [l |-> [IdleCheck EXCEPT !.pc = "fetching"], bookmark_id |-> b,
                  triggers |-> manual.triggers + 1]
    /\ UNCHANGED <<now, ticks, bookmarks, snapshots, changes, notifications, chk, pre,
                   scrapes, attempts, tick, semaphore, task, session>>
    /\ UNCHANGED manager_vars

\* The steps of the triggered call: those of monitor_bookmark.
ManualScrapeFails ==
    /\ manual.l.pc = "fetching"
    /\ WriteBackManual(Raise(CtxManual, "scrape"))

ManualScraped(content, ok) ==
    /\ manual.l.pc = "fetching"
    /\ WriteBackManual(AfterScrape(CtxManual, Scrape(content), ok))

ManualExtracted(failed, answer, ok1, ok2) ==
    /\ manual.l.pc = "extracting"
    /\ \E last_watchpoints \in
            IF manual.l.last_snapshot = 0
            THEN { <<>> }
            ELSE QueryAll(snapshots[manual.bookmark_id][manual.l.last_snapshot].watchpoints) :
         WriteBackManual(AfterExtract(CtxManual,
                            ExtractWatchpoints(manual.l.scraped.content, failed, answer),
                            last_watchpoints, ok1, ok2))

ManualAnalyzed(failed, answer, ok1, ok2) ==
    /\ manual.l.pc = "scoring"
    /\ WriteBackManual(AfterAnalysis(CtxManual, AnalyzeChangeSignificance(failed, answer),
                                     ok1, ok2))

ManualGenerated(failed, answer, ok) ==
    /\ manual.l.pc = "generating"
    /\ WriteBackManual(AfterGenerate(CtxManual,
                          GenerateNotificationMessage(CtxManual.bookmark_title, failed, answer),
                          ok))

ManualSent(ok) ==
    /\ manual.l.pc = "sending"
    /\ WriteBackManual(AfterSend(CtxManual, ok))

\* ------------------------------------------------------ ConnectionManager

Users == {"alice", "bob"}

\* The websockets that may connect, and the user_id of the path each one
\* connects to (main.py:125-126).
Connections == {1, 2, 3, 4}
PathUser(c) == IF c = 4 THEN "bob" ELSE "alice"

NoCall ==
    [op |-> "none", connection |-> 0, registered |-> FALSE, raised |-> FALSE,
     changed |-> FALSE]

\* caller: the item whose check called send_notification (0: another
\* caller); notification: the position of the row it passed.
IdleDelivery ==
    [pc |-> "idle", user_id |-> "alice", at_call |-> <<>>, idx |-> 0, connection |-> 0,
     sent |-> <<>>, disturbed |-> FALSE, detached |-> FALSE,
     caller |-> 0, notification |-> 0]

\* list.remove(x): the list without the first element equal to x.
Remove(list, x) ==
    LET k == CHOOSE k \in DOMAIN list :
                list[k] = x /\ \A m \in DOMAIN list : list[m] = x => k <= m
    IN  SubSeq(list, 1, k - 1) \o SubSeq(list, k + 1, Len(list))

\* main.py:25-27: the key is created when absent, the websocket appended.
ConnectionsAfterConnect(conns, user_id, websocket) ==
    [conns EXCEPT ![user_id] = Append(@, websocket)]

\* main.py:32-33: the call raises ValueError when the user has a list and the
\* websocket is not in it.
DisconnectRaises(conns, user_id, websocket) ==
    /\ conns[user_id] # <<>>
    /\ \A k \in DOMAIN conns[user_id] : conns[user_id][k] # websocket

\* ConnectionManager.disconnect (main.py:30-36); an emptied list is deleted,
\* which is how <<>> reads.
ConnectionsAfterDisconnect(conns, user_id, websocket) ==
    IF conns[user_id] = <<>> \/ DisconnectRaises(conns, user_id, websocket)
    THEN conns
    ELSE [conns EXCEPT ![user_id] = Remove(@, websocket)]

\* websocket_endpoint up to its loop (main.py:144) and ConnectionManager.connect
\* (main.py:22-28): when accept() raises nothing is registered and the
\* endpoint ends.
Connect(c, ok) ==
    /\ endpoint[c] = "none"
    /\ endpoint' = [endpoint EXCEPT ![c] = IF ok THEN "open" ELSE "refused"]
    /\ active_connections' =
          IF ok THEN ConnectionsAfterConnect(active_connections, PathUser(c), c)
                ELSE active_connections
    /\ last_call' = [op |-> "connect", connection |-> c, registered |-> FALSE,
                     raised |-> ~ok, changed |-> ok]
    /\ dlv' = IF ok /\ dlv.pc = "sending" /\ dlv.user_id = PathUser(c) /\ ~dlv.detached
              THEN [dlv EXCEPT !.disturbed = TRUE]
              ELSE dlv
    /\ UNCHANGED deliveries
    /\ UNCHANGED pipeline_vars

\* manager.disconnect(user_id, websocket): by the endpoint when its loop
\* raised (main.py:151-155), or once more, by any caller, for a websocket
\* that was unregistered already.  The for loop of a running send_personal_message holds the
\* user's list object and a position in it: a removal shifts the later
\* elements under it, and a deleted list stays empty for it.
Disconnect(c) ==
    LET u == PathUser(c)
        after == ConnectionsAfterDisconnect(active_connections, u, c)
    IN  /\ endpoint[c] \in {"open", "closed"}
        /\ endpoint' = [endpoint EXCEPT ![c] = "closed"]
        /\ active_connections' = after
        /\ last_call' = [op |-> "disconnect", connection |-> c,
                         registered |-> (\E k \in DOMAIN active_connections[u] :
                                            active_connections[u][k] = c),
                         raised |-> DisconnectRaises(active_connections, u, c),
                         changed |-> (after # active_connections)]
        /\ dlv' = IF dlv.pc = "sending" /\ dlv.user_id = u /\ ~dlv.detached
                     /\ after # active_connections
                  THEN [dlv EXCEPT !.disturbed = TRUE, !.detached = (after[u] = <<>>)]
                  ELSE dlv
        /\ UNCHANGED deliveries
        /\ UNCHANGED pipeline_vars

\* Variant: the loop ends after its first element.
NextPosition_EndsEarly(list, idx, detached) == 0

\* The for loop of main.py:41 after position idx of the user's list: the
\* position it reads next, or 0 when the iteration ends.
NextPosition(list, idx, detached) ==
    IF ~detached /\ idx + 1 <= Len(list) THEN idx + 1 ELSE 0

\* Variant: without a list of the user's own the message goes to the
\* connections of anybody who has one.
DeliveryAtCall_Broadcasts(conns, u) ==
    LET list == IF conns[u] # <<>> \/ \A v \in Users : conns[v] = <<>>
                THEN conns[u]
                ELSE conns[CHOOSE v \in Users : conns[v] # <<>>]
    IN  IF list = <<>>
        THEN [IdleDelivery EXCEPT !.pc = "done", !.user_id = u]
        ELSE [IdleDelivery EXCEPT !.pc = "sending", !.user_id = u,
                                  !.at_call = list, !.idx = 1, !.connection = list[1]]

\* main.py:40-43 up to the first await: `if user_id in self.active_connections`
\* and the first element of the list; with no list the call returns at once.
DeliveryAtCall(conns, u) ==
    LET list == conns[u]
    IN  IF list = <<>>
        THEN [IdleDelivery EXCEPT !.pc = "done", !.user_id = u]
        ELSE [IdleDelivery EXCEPT !.pc = "sending", !.user_id = u,
                                  !.at_call = list, !.idx = 1, !.connection = list[1]]

\* Variant: an error of send_json ends the call.
AfterSendJson_Propagates(d, conns, ok) ==
    LET list == conns[d.user_id]
        next == NextPosition(list, d.idx, d.detached)
        sent == Append(d.sent, [connection |-> d.connection, ok |-> ok])
    IN  IF ~ok
        THEN [d EXCEPT !.pc = "raised", !.sent = sent, !.idx = 0, !.connection = 0]
        ELSE IF next = 0
             THEN [d EXCEPT !.pc = "done", !.sent = sent, !.idx = 0, !.connection = 0]
             ELSE [d EXCEPT !.sent = sent, !.idx = next, !.connection = list[next]]

\* main.py:41-45 from the return of one send_json to the next await: an
\* error is caught and logged, and the loop goes on with the next element of
\* the list as it is now; after the last one the call returns.
AfterSendJson(d, conns, ok) ==
    LET list == conns[d.user_id]
        next == NextPosition(list, d.idx, d.detached)
        sent == Append(d.sent, [connection |-> d.connection, ok |-> ok])
    IN  IF next = 0
        THEN [d EXCEPT !.pc = "done", !.sent = sent, !.idx = 0, !.connection = 0]
        ELSE [d EXCEPT !.sent = sent, !.idx = next, !.connection = list[next]]

\* send_notification (notification.py:9-33) builds the message and calls
\* manager.send_personal_message for the user.
DeliverCall(u) ==
    /\ dlv.pc \in {"idle", "done"}
    /\ deliveries < MaxDeliveries
    /\ deliveries' = deliveries + 1
    /\ dlv' = DeliveryAtCall(active_connections, u)
    /\ UNCHANGED <<active_connections, endpoint, last_call>>
    /\ UNCHANGED pipeline_vars

\* connection.send_json returned or raised; when the loop has ended
\* send_notification returns (notification.py:35-39).
SendReturns(ok) ==
    /\ dlv.pc = "sending"
    /\ dlv' = AfterSendJson(dlv, active_connections, ok)
    /\ UNCHANGED <<active_connections, endpoint, deliveries, last_call>>
    /\ UNCHANGED pipeline_vars

\* ------------------------------------- the check calls send_notification

\* Variant: the message is handed to the manager's broadcast rule: without a
\* list of the owner's own it goes to the connections of anybody who has one.
SendNotificationAtCall_Broadcasts(conns, x, built) ==
    LET d == IF built
             THEN DeliveryAtCall_Broadcasts(conns, x.user_id)
             ELSE [IdleDelivery EXCEPT !.pc = "unsent", !.user_id = x.user_id]
    IN  [d EXCEPT !.caller = x.id, !.notification = Len(x.notifications)]

\* send_notification up to its first await (notification.py:16-33): the
\* message is built and send_personal_message called; when building it
\* raised, the handler of notification.py:41-47 logs and nothing is sent.
SendNotificationAtCall(conns, x, built) ==
    LET d == IF built
             THEN DeliveryAtCall(conns, x.user_id)
             ELSE [IdleDelivery EXCEPT !.pc = "unsent", !.user_id = x.user_id]
    IN  [d EXCEPT !.caller = x.id, !.notification = Len(x.notifications)]

\* Did anything in the delivery d raise?
DeliveryFailed(d) ==
    \/ d.pc \in {"unsent", "raised"}
    \/ \E k \in DOMAIN d.sent : ~d.sent[k].ok

\* Variant: an error of the delivery reaches the check.
AfterNotify_Propagates(x, d, ok) ==
    IF DeliveryFailed(d) THEN Raise(x, "send notification") ELSE AfterSend(x, ok)

\* monitor.py:178-189 once send_notification has ended as d: it returns
\* normally however the delivery went (notification.py:41-47, main.py:44-45),
\* and the check goes on to the timestamp.
AfterNotify(x, d, ok) == AfterSend(x, ok)

\* ai_service.generate_notification_message returned: monitor.py:163-178 and
\* send_notification up to the first send_json; with nothing to await the
\* check runs on to its end (monitor.py:180-189).
Notify(b, failed, answer, built, ok1, ok2) ==
    LET x == AfterGenerate(Ctx(b),
                GenerateNotificationMessage(BookmarkTitle(b), failed, answer), ok1)
        d == SendNotificationAtCall(active_connections, x, built)
    IN  /\ chk[b].pc = "generating"
        /\ IF x.l.pc = "failed"
           THEN WriteBack(b, x) /\ UNCHANGED dlv
           ELSE /\ dlv' = d
                /\ IF d.pc = "sending"
                   THEN WriteBack(b, x)
                   ELSE WriteBack(b, AfterNotify(x, d, ok2))
        /\ UNCHANGED <<scrapes, active_connections, endpoint, deliveries, last_call>>

\* connection.send_json returned or raised in a delivery the check of an item
\* awaits; after the last connection send_notification returns and the check
\* runs on to its end.
NotifySendReturns(ok, ok2) ==
    LET d == AfterSendJson(dlv, active_connections, ok)
    IN  /\ dlv.pc = "sending"
        /\ dlv.caller # 0
        /\ dlv' = d
        /\ IF d.pc = "sending"
           THEN UNCHANGED pipeline_vars
           ELSE /\ WriteBack(dlv.caller, AfterNotify(Ctx(dlv.caller), d, ok2))
                /\ UNCHANGED scrapes
        /\ UNCHANGED <<active_connections, endpoint, deliveries, last_call>>

\* ------------------------------------------------------------ specifications

\* create_bookmark (routers/bookmarks.py:53-98) leaves a row that was never
\* checked, with its initial snapshot, or with none when that commit failed.
InitialSnapshot(c, w) ==
    << [content_hash |-> ContentHash(c), extracted_content |-> c, watchpoints |-> w] >>

InitCommon ==
    /\ now = 0
    /\ ticks = 0
    /\ changes = [b \in Bookmarks |-> <<>>]
    /\ notifications = [b \in Bookmarks |-> <<>>]
    /\ chk = [b \in Bookmarks |-> IdleCheck]
    /\ pre = [b \in Bookmarks |->
                [snapshots |-> <<>>, changes |-> <<>>, notifications |-> <<>>,
                 last_checked_at |-> None]]
    /\ scrapes = [b \in Bookmarks |-> <<>>]
    /\ attempts = [b \in Bookmarks |-> 0]
    /\ tick = [pc |-> "idle", bookmarks_to_check |-> {}]
    /\ semaphore = max_concurrent_checks
    /\ task = [b \in Bookmarks |-> "none"]
    /\ manual = IdleManual
    /\ session = <<>>
    /\ active_connections = [u \in Users |-> <<>>]
    /\ endpoint = [c \in Connections |-> "none"]
    /\ dlv = IdleDelivery
    /\ deliveries = 0
    /\ last_call = NoCall

Owner(b) == IF b = 1 THEN "alice" ELSE "bob"

\* One monitored item (the others are disabled), every answer of the
\* scraper, the extractor and the analyzer; the generator gives one answer
\* (its other answers are in SpecNotify).
Init ==
    /\ InitCommon
    /\ bookmarks = [b \in Bookmarks |->
                      [user_id |-> Owner(b), monitoring_enabled |-> (b = 1),
                       check_interval |-> 1, last_checked_at |-> None]]
    /\ \E s \in { <<>>, InitialSnapshot([head |-> "h1", tail |-> ""], << Wp("price", "$10") >>) } :
         snapshots = [b \in Bookmarks |-> IF b = 1 THEN s ELSE <<>>]

Next ==
    \/ TickStart
    \/ TickEnd
    \/ Advance
    \/ \E b \in Bookmarks : Acquire(b)
    \/ \E b \in Bookmarks : ScrapeFails(b)
    \/ \E b \in Bookmarks, c \in Contents, ok \in BOOLEAN : Scraped(b, c, ok)
    \/ \E b \in Bookmarks, failed \in BOOLEAN, answer \in WatchpointLists, ok1, ok2 \in BOOLEAN :
         Extracted(b, failed, answer, ok1, ok2)
    \/ \E b \in Bookmarks, failed \in BOOLEAN, answer \in AnalyzerAnswers, ok1, ok2 \in BOOLEAN :
         Analyzed(b, failed, answer, ok1, ok2)
    \/ \E b \in Bookmarks, ok \in BOOLEAN :
         Generated(b, FALSE, [title |-> "Price drop", message |-> << "The price went down." >>], ok)
    \/ \E b \in Bookmarks, ok \in BOOLEAN : Sent(b, ok)

Spec == Init /\ [][Next]_vars

\* Several monitored items, created by create_bookmark with their initial
\* snapshot and never checked; the third may be disabled.  The extractor and
\* the analyzer each give one answer, and storage fails only on the first
\* commit of a check.
InitTick ==
    /\ InitCommon
    /\ \E e \in BOOLEAN :
         bookmarks = [b \in Bookmarks |->
                        [user_id |-> Owner(b),
                         monitoring_enabled |-> IF b = 3 THEN e ELSE TRUE,
                         check_interval |-> IF b = 1 THEN 2 ELSE 1,
                         last_checked_at |-> None]]
    /\ snapshots = [b \in Bookmarks |->
                      InitialSnapshot([head |-> "h1", tail |-> ""], << Wp("price", "$10") >>)]

\* The steps of the check of item b, whatever the collaborators answer.
CheckStep(b) ==
    \/ ScrapeFails(b)
    \/ \E c \in Contents, ok \in BOOLEAN : Scraped(b, c, ok)
    \/ Extracted(b, FALSE, << Wp("price", "$9") >>, TRUE, TRUE)
    \/ Analyzed(b, TRUE, AnalysisFallback, TRUE, TRUE)
    \/ Generated(b, TRUE, NotificationFallback(BookmarkTitle(b)), TRUE)
    \/ Sent(b, TRUE)

NextTick ==
    \/ TickStart
    \/ TickEnd
    \/ Advance
    \/ \E b \in Bookmarks : Acquire(b)
    \/ \E b \in Bookmarks : CheckStep(b)

SpecTick == InitTick /\ [][NextTick]_vars

\* The ticks at one instant: whether a tick completes does not depend on the
\* clock.
NextLive ==
    \/ TickStart
    \/ TickEnd
    \/ \E b \in Bookmarks : Acquire(b)
    \/ \E b \in Bookmarks : CheckStep(b)

\* The event loop resumes a task whose awaited call has returned, and a task
\* waiting for the semaphore once a slot is free; every awaited call returns.
LiveTick ==
    /\ InitTick /\ [][NextLive]_vars
    /\ WF_vars(TickEnd)
    /\ \A b \in Bookmarks : WF_vars(Acquire(b)) /\ WF_vars(CheckStep(b))

\* The connection manager alone: websockets connect and disconnect while
\* notifications are delivered; the pipeline stands still.
InitManager ==
    /\ InitCommon
    /\ bookmarks = [b \in Bookmarks |->
                      [user_id |-> Owner(b), monitoring_enabled |-> FALSE,
                       check_interval |-> 1, last_checked_at |-> None]]
    /\ snapshots = [b \in Bookmarks |-> <<>>]

NextManager ==
    \/ \E c \in Connections, ok \in BOOLEAN : Connect(c, ok)
    \/ \E c \in Connections : Disconnect(c)
    \/ \E u \in Users : DeliverCall(u)
    \/ \E ok \in BOOLEAN : SendReturns(ok)

SpecManager == InitManager /\ [][NextManager]_vars

\* The websockets of SpecNotify: two of the item's owner, one of another user.
NotifyConnections == {1, 2, 4}

\* One monitored item with its initial snapshot of two fields, checked while
\* websockets connect and disconnect; the scraper and the extractor each give
\* one answer (both fields changed), the analyzer fails or scores below the
\* threshold, and the commits up to the notification succeed.
InitNotify ==
    /\ InitCommon
    /\ bookmarks = [b \in Bookmarks |->
                      [user_id |-> Owner(b), monitoring_enabled |-> (b = 1),
                       check_interval |-> 1, last_checked_at |-> None]]
    /\ snapshots = [b \in Bookmarks |->
                      IF b = 1
                      THEN InitialSnapshot([head |-> "h1", tail |-> ""],
                                           << Wp("price", "$10"), Wp("title", "$10") >>)
                      ELSE <<>>]

NextNotify ==
    \/ TickStart
    \/ TickEnd
    \/ \E b \in Bookmarks : Acquire(b)
    \/ \E b \in Bookmarks : Scraped(b, [head |-> "h2", tail |-> "t2"], TRUE)
    \/ \E b \in Bookmarks :
         Extracted(b, FALSE, << Wp("title", "$9"), Wp("price", "$9") >>, TRUE, TRUE)
    \/ \E b \in Bookmarks, failed \in BOOLEAN :
         Analyzed(b, failed, [significance_score |-> 3, change_type |-> "modified"], TRUE, TRUE)
    \/ \E b \in Bookmarks, failed \in BOOLEAN, answer \in GeneratorAnswers,
          built, ok1, ok2 \in BOOLEAN :
         Notify(b, failed, answer, built, ok1, ok2)
    \/ \E ok, ok2 \in BOOLEAN : NotifySendReturns(ok, ok2)
    \/ \E c \in NotifyConnections, ok \in BOOLEAN : Connect(c, ok)
    \/ \E c \in NotifyConnections : Disconnect(c)

SpecNotify == InitNotify /\ [][NextNotify]_vars

\* What the extractor answers in SpecOverlap.
OverlapWatchpointLists ==
    { << Wp("price", "$9") >>, << Wp("price", "$10"), Wp("title", "$10") >> }

\* One monitored item with its initial snapshot, checked by the ticks and, at
\* any moment, by a call a request triggers: the two calls of monitor_bookmark
\* interleave at their awaits.  The page may differ from one fetch to the
\* next; the commit of the fields may fail.
InitOverlap ==
    /\ InitCommon
    /\ bookmarks = [b \in Bookmarks |->
                      [user_id |-> Owner(b), monitoring_enabled |-> (b = 1),
                       check_interval |-> 1, last_checked_at |-> None]]
    /\ snapshots = [b \in Bookmarks |->
                      IF b = 1
                      THEN InitialSnapshot([head |-> "h1", tail |-> ""], << Wp("price", "$10") >>)
                      ELSE <<>>]

NextOverlap ==
    \/ TickStart
    \/ TickEnd
    \/ \E b \in Bookmarks : Acquire(b)
    \/ \E b \in Bookmarks : ScrapeFails(b)
    \/ \E b \in Bookmarks, c \in Contents : Scraped(b, c, TRUE)
    \/ \E b \in Bookmarks, answer \in OverlapWatchpointLists, ok1 \in BOOLEAN :
         Extracted(b, FALSE, answer, ok1, TRUE)
    \/ \E b \in Bookmarks : Analyzed(b, TRUE, AnalysisFallback, TRUE, TRUE)
    \/ \E b \in Bookmarks :
         Generated(b, TRUE, NotificationFallback(BookmarkTitle(b)), TRUE)
    \/ \E b \in Bookmarks : Sent(b, TRUE)
    \/ Trigger(1)
    \/ ManualScrapeFails
    \/ \E c \in Contents : ManualScraped(c, TRUE)
    \/ \E answer \in OverlapWatchpointLists, ok1 \in BOOLEAN :
         ManualExtracted(FALSE, answer, ok1, TRUE)
    \/ ManualAnalyzed(TRUE, AnalysisFallback, TRUE, TRUE)
    \/ ManualGenerated(TRUE, NotificationFallback(BookmarkTitle(1)), TRUE)
    \/ ManualSent(TRUE)

SpecOverlap == InitOverlap /\ [][NextOverlap]_vars

\* ------------------------------------------------------------------ claims

Last(q) == q[Len(q)]

\* The rows of item b that its current (or last) check added.
NewSnapshots(b) == SubSeq(snapshots[b], Len(pre[b].snapshots) + 1, Len(snapshots[b]))
NewChanges(b) == SubSeq(changes[b], Len(pre[b].changes) + 1, Len(changes[b]))
NewNotifications(b) ==
    SubSeq(notifications[b], Len(pre[b].notifications) + 1, Len(notifications[b]))

Range(q) == { q[k] : k \in DOMAIN q }

\* The step in which the check of b gets a scrape whose hash is the hash of
\* the item's latest snapshot.
SameHashScrape(b) ==
    /\ chk[b].pc = "fetching"
    /\ Len(scrapes'[b]) = Len(scrapes[b]) + 1
    /\ Len(snapshots[b]) > 0
    /\ Last(scrapes'[b]) = Last(snapshots[b]).content_hash

\* C1: a check whose fetch returns the hash of the item's latest snapshot
\* adds no snapshot, extracts nothing (it ends in that very step), adds no
\* change and no notification, and sets last-checked to the current time;
\* the only other outcome is that the commit of the timestamp itself raises.
\* Holding of every such step, it holds of any number of them in a row.
C1_NoChangeFastPath ==
    [][\A b \in Bookmarks :
         SameHashScrape(b) =>
            /\ snapshots'[b] = snapshots[b]
            /\ changes'[b] = changes[b]
            /\ notifications'[b] = notifications[b]
            /\ \/ /\ chk'[b].pc = "done"
                  /\ bookmarks'[b].last_checked_at = Some(now)
               \/ /\ chk'[b].pc = "failed"
                  /\ chk'[b].error = "commit timestamp"
                  /\ bookmarks'[b].last_checked_at = bookmarks[b].last_checked_at]_vars

\* C1 witness: a second no-change check in a row has completed, at a later
\* time than the first: still one snapshot, nothing else, a new timestamp.
C1_Witness ==
    /\ ticks = 2
    /\ chk[1].pc = "done"
    /\ Len(snapshots[1]) = 1
    /\ scrapes[1] = << snapshots[1][1].content_hash >>
    /\ snapshots[1] = pre[1].snapshots
    /\ changes[1] = <<>>
    /\ notifications[1] = <<>>
    /\ pre[1].last_checked_at = Some(0)
    /\ bookmarks[1].last_checked_at = Some(1)

\* C2 (as claimed): once a check has failed, the item's snapshots, fields,
\* changes, notifications and last-checked are those it had when the check
\* began.
C2_RollbackRestoresPreCheckRows ==
    \A b \in Bookmarks : chk[b].pc = "failed" => Rows(b) = pre[b]

\* C3: when the commit of the new snapshot raises, nothing of that check is
\* persisted and last-checked keeps its value.
C3_SnapshotAppendFailure ==
    \A b \in Bookmarks :
        (chk[b].pc = "failed" /\ chk[b].error = "commit snapshot") =>
            /\ snapshots[b] = pre[b].snapshots
            /\ changes[b] = pre[b].changes
            /\ notifications[b] = pre[b].notifications
            /\ bookmarks[b].last_checked_at = pre[b].last_checked_at

\* C3 witness: the append failed on changed content of an item that has a
\* snapshot.
C3_Witness ==
    /\ chk[1].pc = "failed"
    /\ chk[1].error = "commit snapshot"
    /\ Len(snapshots[1]) = 1
    /\ scrapes[1] # << snapshots[1][1].content_hash >>

\* C4: a check that ran to completion created a notification if and only if
\* one of the changes it persisted has a score of at least the threshold.
C4_NotificationGating ==
    \A b \in Bookmarks :
        chk[b].pc = "done" =>
            ( NewNotifications(b) # <<>>
              <=> \E c \in Range(NewChanges(b)) : c.significance_score >= NOTIFY_THRESHOLD )

\* C4 witness: a completed check whose only change scores exactly the
\* threshold, and notified ...
C4_Witness ==
    /\ chk[1].pc = "done"
    /\ Len(NewChanges(1)) = 1
    /\ NewChanges(1)[1].significance_score = NOTIFY_THRESHOLD
    /\ Len(NewNotifications(1)) = 1

\* ... and one whose changes all score below it, and did not.
C4_WitnessBelow ==
    /\ chk[1].pc = "done"
    /\ Len(NewChanges(1)) = 2
    /\ \A c \in Range(NewChanges(1)) : c.significance_score < NOTIFY_THRESHOLD
    /\ NewNotifications(1) = <<>>

\* C8: when the scrape raises, the check has failed (the exception reaches
\* the caller, which catches it), nothing was created, last-checked is
\* unchanged and the scraper was called once.
C8_FetchFailure ==
    \A b \in Bookmarks :
        (chk[b].pc # "idle" /\ Len(scrapes[b]) > 0 /\ scrapes[b][1] = ScrapeError) =>
            /\ chk[b].pc = "failed"
            /\ chk[b].error = "scrape"
            /\ task[b] = "caught"
            /\ Rows(b) = pre[b]
            /\ Len(scrapes[b]) = 1

\* C8 witness: a fetch failed on an item that has rows and a timestamp.
C8_Witness ==
    /\ chk[1].pc = "failed"
    /\ chk[1].error = "scrape"
    /\ Len(snapshots[1]) = 2
    /\ bookmarks[1].last_checked_at # None

\* C9: a check of an item without snapshots never creates a change or a
\* notification and at most one snapshot; when it completes there is exactly
\* one snapshot, of the fetched content, with the extracted fields, and
\* last-checked is set.
C9_FirstSnapshotSilent ==
    \A b \in Bookmarks :
        (chk[b].pc # "idle" /\ pre[b].snapshots = <<>>) =>
            /\ changes[b] = <<>>
            /\ notifications[b] = <<>>
            /\ Len(snapshots[b]) <= 1
            /\ chk[b].pc = "done" =>
                  /\ Len(snapshots[b]) = 1
                  /\ snapshots[b][1].content_hash = scrapes[b][1]
                  /\ snapshots[b][1].watchpoints # <<>>
                  /\ pre[b].last_checked_at = None
                  /\ bookmarks[b].last_checked_at # None

\* C9 witness: the first check of an item has completed.
C9_Witness ==
    /\ chk[1].pc = "done"
    /\ pre[1].snapshots = <<>>
    /\ Len(snapshots[1]) = 1
    /\ Len(snapshots[1][1].watchpoints) = 2

\* C10 (as claimed): every persisted change has a score within [0, 1].
C10_SignificanceClamp ==
    \A b \in Bookmarks :
        \A c \in Range(changes[b]) :
            c.significance_score >= SCORE_MIN /\ c.significance_score <= SCORE_MAX

\* A check that has started and not ended.
Running(b) == chk[b].pc \in {"fetching", "extracting", "scoring", "generating", "sending"}

\* C5: at most max_concurrent_checks checks of a tick are running at a time.
C5_ConcurrencyBound ==
    Cardinality({ b \in Bookmarks : Running(b) }) <= max_concurrent_checks

\* C5 witness: the tick selected more items than the capacity; as many
\* checks as the capacity are running and another waits for a slot.
C5_Witness ==
    /\ tick.pc = "gather"
    /\ Cardinality(tick.bookmarks_to_check) > max_concurrent_checks
    /\ Cardinality({ b \in Bookmarks : Running(b) }) = max_concurrent_checks
    /\ \E b \in Bookmarks : task[b] = "waiting"

\* While the tick gathers, the free slots and the running checks add up to
\* the capacity: an ended check, failed or not, has given its slot back.
SlotsAccounted ==
    tick.pc = "gather" =>
        semaphore + Cardinality({ b \in Bookmarks : task[b] = "running" }) = max_concurrent_checks

\* monitor_bookmark is called at most once per selected item and never for
\* another item.
AttemptedAtMostOnce ==
    \A b \in Bookmarks :
        /\ attempts[b] <= 1
        /\ attempts[b] = 1 => b \in tick.bookmarks_to_check

\* When the tick has completed, every selected item was attempted once and
\* its check ended, by returning or by an exception that was caught.
AllAttempted ==
    (tick.pc = "idle" /\ ticks > 0) =>
        \A b \in tick.bookmarks_to_check :
            attempts[b] = 1 /\ task[b] \in {"returned", "caught"}

\* C6: every selected item is attempted exactly once, a check that raised
\* does not keep the others from being attempted, its slot is given back,
\* and the tick completes.
C6_BatchCompletion ==
    /\ [](SlotsAccounted /\ AttemptedAtMostOnce /\ AllAttempted)
    /\ (tick.pc = "gather") ~> (tick.pc = "idle")

\* C6 witness: a tick of three items has completed although the first two
\* checks failed; the third, queued behind them, was attempted and returned.
C6_Witness ==
    /\ tick.pc = "idle"
    /\ tick.bookmarks_to_check = {1, 2, 3}
    /\ task[1] = "caught"
    /\ task[2] = "caught"
    /\ task[3] = "returned"
    /\ attempts = [b \in Bookmarks |-> 1]
    /\ semaphore = max_concurrent_checks

\* The rule of selection as the specification states it.
Due(b) ==
    /\ bookmarks[b].monitoring_enabled
    /\ \/ bookmarks[b].last_checked_at = None
       \/ now - bookmarks[b].last_checked_at[1] >= bookmarks[b].check_interval

\* C7: a tick selects exactly the enabled items that were never checked or
\* were last checked at least their own interval ago; monitor_bookmark is
\* only ever called by the tick for an item it selected, so never for a
\* disabled one.
C7_DueSelection ==
    /\ [][(tick.pc = "idle" /\ tick'.pc = "gather") =>
            tick'.bookmarks_to_check = { b \in Bookmarks : Due(b) }]_vars
    /\ [](\A b \in Bookmarks :
            task[b] # "none" => (b \in tick.bookmarks_to_check /\ bookmarks[b].monitoring_enabled))

\* C7 witness: a second tick selected an item whose interval had just elapsed
\* and left out an enabled item checked less than its interval ago and a
\* disabled one.
C7_Witness ==
    /\ tick.pc = "gather"
    /\ ticks = 2
    /\ now = 1
    /\ 2 \in tick.bookmarks_to_check
    /\ bookmarks[2].last_checked_at = Some(0)
    /\ 1 \notin tick.bookmarks_to_check
    /\ bookmarks[1].last_checked_at = Some(0)
    /\ ~bookmarks[3].monitoring_enabled
    /\ 3 \notin tick.bookmarks_to_check

\* C11: every persisted change has an old value different from its new
\* value; and where a check stored a new snapshot after a prior one, a field
\* of the new snapshot whose name the prior snapshot has, with the same value
\* in every row of that name, is the field of no change of that check.
C11_NoNoOpDiffs ==
    \A b \in Bookmarks :
        /\ \A c \in Range(changes[b]) : c.old_value # c.new_value
        /\ (Len(NewSnapshots(b)) = 1 /\ pre[b].snapshots # <<>>) =>
              LET old == Last(pre[b].snapshots).watchpoints
                  new == Last(snapshots[b]).watchpoints
              IN  \A j \in DOMAIN new :
                      (/\ \E k \in DOMAIN old : old[k].field_name = new[j].field_name
                       /\ \A k \in DOMAIN old :
                             old[k].field_name = new[j].field_name =>
                                 old[k].field_value = new[j].field_value)
                      => \A c \in Range(NewChanges(b)) : c.watchpoint # j

\* C11 witness: a completed check of changed content whose extraction has
\* the prior field with its prior value (and a new field): no change.
C11_Witness ==
    /\ chk[1].pc = "done"
    /\ Len(pre[1].snapshots) = 1
    /\ Len(NewSnapshots(1)) = 1
    /\ Last(pre[1].snapshots).watchpoints = << Wp("price", "$10") >>
    /\ Last(snapshots[1]).watchpoints = << Wp("price", "$10"), Wp("title", "$10") >>
    /\ NewChanges(1) = <<>>

\* The connections a delivery has sent to, in order.
SentTo == [k \in DOMAIN dlv.sent |-> dlv.sent[k].connection]

C14_FailingConnectionUnregistered ==
    dlv.pc = "done" =>
        \A k \in DOMAIN dlv.sent :
            ~dlv.sent[k].ok => SentTo[k] \notin Range(active_connections[dlv.user_id])

\* C15 (as claimed): unregistering a connection that is not registered
\* raises no error and leaves the registry as it was, whether or not the
\* user has other connections.
C15_DoubleUnregisterIdempotent ==
    (last_call.op = "disconnect" /\ ~last_call.registered) =>
        ~last_call.raised /\ ~last_call.changed

\* C16: a delivery to a user without connections returns in the very step of
\* the call, sends nothing and leaves the registry as it was.
C16_NoConnectionsNoOp ==
    /\ [][\A u \in Users :
            (DeliverCall(u) /\ active_connections[u] = <<>>) =>
                /\ dlv'.pc = "done"
                /\ dlv'.sent = <<>>
                /\ active_connections' = active_connections]_vars
    /\ []((dlv.pc = "done" /\ dlv.at_call = <<>>) => dlv.sent = <<>>)

\* C16 witness: a delivery to a user without connections has returned while
\* another user had connections.
C16_Witness ==
    /\ dlv.pc = "done"
    /\ dlv.user_id = "bob"
    /\ dlv.at_call = <<>>
    /\ dlv.sent = <<>>
    /\ active_connections["bob"] = <<>>
    /\ Len(active_connections["alice"]) = 2

\* C17: the step in which a check completes, on whichever path, sets the
\* item's last-checked to the time of that step; a completed check's item
\* has a last-checked.
C17_LastCheckedOnCompletion ==
    /\ [][\A b \in Bookmarks :
            (chk[b].pc # "done" /\ chk'[b].pc = "done") =>
                bookmarks'[b].last_checked_at = Some(now)]_vars
    /\ [](\A b \in Bookmarks : chk[b].pc = "done" => bookmarks[b].last_checked_at # None)

\* C17 witness: a check completed on the diff path with a notification, at
\* a later time than the item's previous check ...
C17_Witness ==
    /\ chk[1].pc = "done"
    /\ Len(NewChanges(1)) > 0
    /\ Len(NewNotifications(1)) = 1
    /\ pre[1].last_checked_at = Some(0)
    /\ bookmarks[1].last_checked_at = Some(1)

\* ... on the diff path without a notification ...
C17_WitnessNoNotification ==
    /\ chk[1].pc = "done"
    /\ Len(NewSnapshots(1)) = 1
    /\ pre[1].snapshots # <<>>
    /\ NewNotifications(1) = <<>>
    /\ bookmarks[1].last_checked_at = Some(now)

\* ... on the first-snapshot path ...
C17_WitnessFirstSnapshot ==
    /\ chk[1].pc = "done"
    /\ pre[1].snapshots = <<>>
    /\ Len(snapshots[1]) = 1
    /\ bookmarks[1].last_checked_at = Some(now)

\* ... and on the no-change fast path.
C17_WitnessFastPath ==
    /\ chk[1].pc = "done"
    /\ pre[1].snapshots # <<>>
    /\ NewSnapshots(1) = <<>>
    /\ bookmarks[1].last_checked_at = Some(now)

\* C18: a failed check leaves last-checked as it was; the item is attempted
\* at most once in a tick and its failed check is followed by nothing until
\* a new tick starts; and a tick that starts selects every enabled item whose
\* last check failed.
C18_FailedItemStaysEligible ==
    /\ [](\A b \in Bookmarks :
            /\ attempts[b] <= 1
            /\ chk[b].pc = "failed" => bookmarks[b].last_checked_at = pre[b].last_checked_at)
    /\ [][\A b \in Bookmarks :
            (chk[b].pc = "failed" /\ chk'[b] # chk[b]) =>
                (tick.pc = "idle" /\ tick'.pc = "gather")]_vars
    /\ [][(tick.pc = "idle" /\ tick'.pc = "gather") =>
            \A b \in Bookmarks :
                (chk[b].pc = "failed" /\ bookmarks[b].monitoring_enabled) =>
                    b \in tick'.bookmarks_to_check]_vars

\* C18 witness: at the same minute as the tick in which its check failed on
\* storage after the snapshot was committed, the item, never stamped, is
\* selected by the next tick (a completed check would have kept it out for
\* its interval).
C18_Witness ==
    /\ ticks = 2
    /\ now = 0
    /\ tick.pc = "gather"
    /\ 1 \in tick.bookmarks_to_check
    /\ task[1] = "waiting"
    /\ bookmarks[1].last_checked_at = None
    /\ Len(snapshots[1]) = Len(pre[1].snapshots) + 1

\* The positions of the new snapshot's fields that differ from the prior
\* snapshot's field of the same name.
\* The fields of the new snapshot of b's check that differ from every prior
\* row of their name (at least one), and those that differ from some.
ChangedPositions(b) ==
    LET old == Last(pre[b].snapshots).watchpoints
        new == Last(snapshots[b]).watchpoints
    IN  { j \in DOMAIN new :
            /\ \E k \in DOMAIN old : old[k].field_name = new[j].field_name
            /\ \A k \in DOMAIN old :
                  old[k].field_name = new[j].field_name =>
                      old[k].field_value # new[j].field_value }

MaybeChangedPositions(b) ==
    LET old == Last(pre[b].snapshots).watchpoints
        new == Last(snapshots[b]).watchpoints
    IN  { j \in DOMAIN new :
            \E k \in DOMAIN old :
                /\ old[k].field_name = new[j].field_name
                /\ old[k].field_value # new[j].field_value }

\* C19: when the analyzer fails for a changed field, the step persists that
\* field's change with score 0.5 and kind `modified` and the check goes on
\* (to the next changed field or to the notification), unless the commit of
\* the change itself raises; and a check that completed after such a
\* failure has a change for every field that differs from every prior row
\* of its name, none for a field that differs from no prior row, no two for
\* one field, and one notification.
C19_ScoringFailureDegrades ==
    /\ [][\A b \in Bookmarks :
            (\E a \in AnalyzerAnswers, ok1, ok2 \in BOOLEAN : Analyzed(b, TRUE, a, ok1, ok2)) =>
                \/ /\ chk'[b].pc \in {"scoring", "generating"}
                   /\ Len(changes'[b]) = Len(changes[b]) + 1
                   /\ Last(changes'[b]).significance_score = DEFAULT_SCORE
                   /\ Last(changes'[b]).change_type = "modified"
                   /\ Last(changes'[b]).watchpoint = chk[b].i
                \/ /\ chk'[b].pc = "failed"
                   /\ chk'[b].error = "commit change"
                   /\ changes'[b] = changes[b]]_vars
    /\ [](\A b \in Bookmarks :
            (chk[b].pc = "done" /\ \E c \in Range(NewChanges(b)) : c.fallback) =>
                /\ ChangedPositions(b) \subseteq { c.watchpoint : c \in Range(NewChanges(b)) }
                /\ { c.watchpoint : c \in Range(NewChanges(b)) } \subseteq MaybeChangedPositions(b)
                /\ Len(NewChanges(b)) = Cardinality({ c.watchpoint : c \in Range(NewChanges(b)) })
                /\ Len(NewNotifications(b)) = 1)

\* C19 witness: of two changed fields the analyzer failed for the first and
\* scored the second below the threshold; both changes are persisted, the
\* check completed with a notification.
C19_Witness ==
    /\ chk[1].pc = "done"
    /\ Len(NewChanges(1)) = 2
    /\ NewChanges(1)[1].fallback
    /\ NewChanges(1)[1].significance_score = DEFAULT_SCORE
    /\ NewChanges(1)[1].change_type = "modified"
    /\ ~NewChanges(1)[2].fallback
    /\ NewChanges(1)[2].significance_score = 3
    /\ Len(NewNotifications(1)) = 1
    /\ NewNotifications(1)[1].change_id = Len(pre[1].changes) + 1

\* C20: when the extractor fails, the step stores exactly one field for the
\* new snapshot, named "content", whose value is the first 500 characters of
\* the fetched content, primary, and the check goes on, unless the commit of
\* the field raises.
C20_ExtractionFallback ==
    [][\A b \in Bookmarks :
         (\E a \in WatchpointLists, ok1, ok2 \in BOOLEAN : Extracted(b, TRUE, a, ok1, ok2)) =>
            LET snapshot == snapshots'[b][chk[b].new_snapshot]
            IN  \/ /\ chk'[b].pc # "failed"
                   /\ snapshot.content_hash = Last(scrapes[b])
                   /\ Len(snapshot.watchpoints) = 1
                   /\ snapshot.watchpoints[1].field_name = "content"
                   /\ snapshot.watchpoints[1].field_value = snapshot.extracted_content.head
                   /\ snapshot.watchpoints[1].is_primary = TRUE
                \/ /\ chk'[b].pc = "failed"
                   /\ chk'[b].error \in {"commit watchpoints", "commit timestamp"}]_vars

\* C20 witness: a check whose extraction failed has completed; its snapshot
\* has the one fallback field, with the head of the fetched content.
C20_Witness ==
    /\ chk[1].pc = "done"
    /\ Len(NewSnapshots(1)) = 1
    /\ NewSnapshots(1)[1].extracted_content = [head |-> "h2", tail |-> "t2"]
    /\ NewSnapshots(1)[1].watchpoints =
          << [field_name |-> "content", field_value |-> "h2", is_primary |-> TRUE] >>

\* The step in which send_notification, called by the check of b, ends.
DeliveryEnds(b) ==
    /\ dlv' # dlv
    /\ dlv'.caller = b
    /\ dlv'.pc # "sending"

\* C21: a delivery failure never aborts a check.  When the delivery of the
\* notification a check has just persisted ends with an error (of one
\* send_json or of the whole dispatch), the check goes on to the timestamp:
\* it ends done with last_checked_at set to the present, or failed on the
\* commit of the timestamp and on nothing else; the notification row stays
\* as persisted (no step ever removes or alters a notification row).
C21_DeliveryFailureNeverAborts ==
    [][\A b \in Bookmarks :
         /\ SubSeq(notifications'[b], 1, Len(notifications[b])) = notifications[b]
         /\ (DeliveryEnds(b) /\ DeliveryFailed(dlv')) =>
               /\ Len(NewNotifications(b)') = 1
               /\ dlv'.notification = Len(notifications'[b])
               /\ \/ /\ chk'[b].pc = "done"
                     /\ bookmarks'[b].last_checked_at = Some(now')
                  \/ /\ chk'[b].pc = "failed"
                     /\ chk'[b].error = "commit timestamp"]_vars

\* One send_json of the delivery raised and another succeeded; the check is
\* done.
C21_Witness ==
    /\ dlv.caller = 1
    /\ dlv.pc = "done"
    /\ \E k \in DOMAIN dlv.sent : ~dlv.sent[k].ok
    /\ \E k \in DOMAIN dlv.sent : dlv.sent[k].ok
    /\ chk[1].pc = "done"
    /\ bookmarks[1].last_checked_at = Some(now)
    /\ Len(NewNotifications(1)) = 1

\* The whole dispatch failed while the owner had a connection; the check is
\* done.
C21_WitnessUnsent ==
    /\ dlv.caller = 1
    /\ dlv.pc = "unsent"
    /\ active_connections["alice"] # <<>>
    /\ chk[1].pc = "done"
    /\ bookmarks[1].last_checked_at = Some(now)
    /\ Len(NewNotifications(1)) = 1

\* C22: a failure of the message generator uses the static template.  A step
\* that persists a notification whose generation failed persists exactly one
\* row, the only one of its check, with the title "Bookmark Updated" and the
\* message "<title of the item> has changed."; in the same step the row is
\* handed to send_notification for the item's owner, which, unless building
\* the message raised, addresses the connections the owner has at that
\* moment; and the check then ends done, or failed on the commit of the
\* timestamp only.
C22_GenerationFallback ==
    [][\A b \in Bookmarks :
         LET n == Last(notifications'[b])
             u == bookmarks[b].user_id
         IN  /\ (Len(notifications'[b]) > Len(notifications[b]) /\ n.generation_failed) =>
                   /\ Len(notifications'[b]) = Len(notifications[b]) + 1
                   /\ Len(NewNotifications(b)') = 1
                   /\ n.title = "Bookmark Updated"
                   /\ n.message = << "Shop", " has changed." >>
                   /\ dlv'.caller = b
                   /\ dlv'.notification = Len(notifications'[b])
                   /\ dlv'.user_id = u
                   /\ dlv'.pc = "unsent" \/ dlv'.at_call = active_connections[u]
                   /\ chk'[b].pc \in {"sending", "done"}
                        \/ (chk'[b].pc = "failed" /\ chk'[b].error = "commit timestamp")
             /\ (chk[b].pc = "sending" /\ chk'[b].pc # "sending") =>
                   \/ /\ chk'[b].pc = "done"
                      /\ bookmarks'[b].last_checked_at = Some(now')
                   \/ chk'[b].pc = "failed" /\ chk'[b].error = "commit timestamp"]_vars

\* The generator failed, the template was persisted and sent to a connection
\* of the owner, and the check is done.
C22_Witness ==
    /\ chk[1].pc = "done"
    /\ Len(NewNotifications(1)) = 1
    /\ Last(notifications[1]).generation_failed
    /\ Last(notifications[1]).title = "Bookmark Updated"
    /\ dlv.caller = 1
    /\ dlv.pc = "done"
    /\ \E k \in DOMAIN dlv.sent : dlv.sent[k].ok

\* C23: at most one notification per check.  The current (or last) check of
\* an item has added no notification or one, however many of its changes
\* reach the threshold; that notification is a row of the same item and
\* references a change this check created, on the check's new snapshot,
\* whose score reaches the threshold, and no change this check created
\* before it does.
C23_OneNotificationPerCheck ==
    \A b \in Bookmarks :
        /\ Len(NewNotifications(b)) <= 1
        /\ Len(NewNotifications(b)) = 1 =>
              LET n == NewNotifications(b)[1]
                  first == Len(pre[b].changes) + 1
              IN  /\ n.bookmark_id = b
                  /\ n.change_id \in first..Len(changes[b])
                  /\ changes[b][n.change_id].snapshot = Len(pre[b].snapshots) + 1
                  /\ changes[b][n.change_id].significance_score >= NOTIFY_THRESHOLD
                  /\ \A j \in first..(n.change_id - 1) :
                        changes[b][j].significance_score < NOTIFY_THRESHOLD

\* The first change of the check is below the threshold and the second above
\* it: the notification references the second.
C23_Witness ==
    /\ Len(NewChanges(1)) = 2
    /\ NewChanges(1)[1].significance_score < NOTIFY_THRESHOLD
    /\ NewChanges(1)[2].significance_score >= NOTIFY_THRESHOLD
    /\ Len(NewNotifications(1)) = 1
    /\ NewNotifications(1)[1].change_id = Len(pre[1].changes) + 2

\* Two changes of the check reach the threshold: one notification, for the
\* first.
C23_WitnessTwoSignificant ==
    /\ Len(NewChanges(1)) = 2
    /\ \A k \in 1..2 : NewChanges(1)[k].significance_score >= NOTIFY_THRESHOLD
    /\ Len(NewNotifications(1)) = 1
    /\ NewNotifications(1)[1].change_id = Len(pre[1].changes) + 1

\* The names of the fields of a snapshot.
FieldNames(snapshot) ==
    { snapshot.watchpoints[k].field_name : k \in DOMAIN snapshot.watchpoints }

\* The check of b has ended done after comparing a new snapshot with a prior
\* one.
Compared(b) ==
    /\ chk[b].pc = "done"
    /\ Len(pre[b].snapshots) > 0
    /\ Len(NewSnapshots(b)) = 1

\* C24: added fields are reported.  When a check that had a prior snapshot
\* has ended, every field of its new snapshot whose name the prior snapshot
\* does not have has a change of this check, classified "added".
C24_AddedFieldsReported ==
    \A b \in Bookmarks :
        Compared(b) =>
            LET old == Last(pre[b].snapshots)
                new == Last(snapshots[b])
            IN  \A j \in DOMAIN new.watchpoints :
                    new.watchpoints[j].field_name \notin FieldNames(old) =>
                        \E k \in DOMAIN NewChanges(b) :
                            /\ NewChanges(b)[k].watchpoint = j
                            /\ NewChanges(b)[k].change_type = "added"

\* Every change of the current (or last) check of b is attached to a field
\* of that check's new snapshot and carries that field's name.
OnNewSnapshot(b) ==
    \A k \in DOMAIN NewChanges(b) :
        LET c == NewChanges(b)[k]
        IN  /\ c.snapshot = Len(pre[b].snapshots) + 1
            /\ c.snapshot <= Len(snapshots[b])
            /\ c.watchpoint \in DOMAIN snapshots[b][c.snapshot].watchpoints
            /\ snapshots[b][c.snapshot].watchpoints[c.watchpoint].field_name = c.field_name

\* No change of the check of b is for a name its prior snapshot has and its
\* new snapshot does not have.
NoChangeForRemoved(b) ==
    (Len(pre[b].snapshots) > 0 /\ Len(NewSnapshots(b)) = 1) =>
        \A name \in FieldNames(Last(pre[b].snapshots)) \ FieldNames(Last(snapshots[b])) :
            \A k \in DOMAIN NewChanges(b) : NewChanges(b)[k].field_name # name

\* C25 as amended: removed fields are not reported.  A field name the prior
\* snapshot has and the new snapshot does not have never produces a change:
\* every change of a check is attached to a field of the check's new
\* snapshot.  (The kind of a change is whatever the analyzer answered.)
C25_RemovedFieldsNotReported ==
    \A b \in Bookmarks : OnNewSnapshot(b) /\ NoChangeForRemoved(b)

\* C25 as stated: moreover no change a check creates is of kind "removed".
C25_NoRemovedKind ==
    \A b \in Bookmarks :
        /\ OnNewSnapshot(b)
        /\ NoChangeForRemoved(b)
        /\ \A k \in DOMAIN NewChanges(b) : NewChanges(b)[k].change_type # "removed"

\* The check has ended; its prior snapshot has a title and its new one has
\* not; the price changed and has its change.
C25_Witness ==
    /\ Compared(1)
    /\ "title" \in FieldNames(Last(pre[1].snapshots)) \ FieldNames(Last(snapshots[1]))
    /\ Len(NewChanges(1)) = 1
    /\ NewChanges(1)[1].field_name = "price"

\* Does the field wp differ from the old value the check holds for its name?
Differs(old_map, wp) ==
    /\ wp.field_name \in DOMAIN old_map
    /\ old_map[wp.field_name] # wp.field_value

\* The positions after `from` of the fields of `new` that differ.
DifferingAfter(old_map, new, from) ==
    { j \in (from + 1)..Len(new) : Differs(old_map, new[j]) }

\* The check of b awaits the analyzer for the first differing field after
\* position `from`, or has left the loop when there is none.
GoesOnAfter(b, old_map, new, from) ==
    IF DifferingAfter(old_map, new, from) = {}
    THEN chk'[b].pc \in {"generating", "done", "failed"}
    ELSE /\ chk'[b].pc = "scoring"
         /\ chk'[b].i \in DifferingAfter(old_map, new, from)
         /\ \A j \in DifferingAfter(old_map, new, from) : chk'[b].i <= j

\* C26: the diff's output order is the extraction order.  The fields of a
\* new snapshot are persisted in the order of the extraction; the changes of
\* one check are persisted in increasing order of the position of their
\* field in it; and the list is a function of the old fields as the check
\* read them and of the new fields: the loop visits exactly the fields that
\* differ from the old value of their name, in order, and persists for each
\* its change with that old value and the new one (unless a commit raises,
\* which ends the check).
C26_DiffOrder ==
    /\ [](\A b \in Bookmarks :
            /\ \A k, m \in DOMAIN NewChanges(b) :
                  k < m => NewChanges(b)[k].watchpoint < NewChanges(b)[m].watchpoint
            /\ chk[b].pc \in {"scoring", "generating", "sending"} =>
                  snapshots[b][chk[b].new_snapshot].watchpoints = chk[b].new_watchpoints)
    /\ [][\A b \in Bookmarks :
            /\ (chk[b].pc = "extracting" /\ chk'[b].pc = "scoring") =>
                  GoesOnAfter(b, chk'[b].old_watchpoints_map, chk'[b].new_watchpoints, 0)
            /\ (chk[b].pc = "scoring" /\ chk'[b] # chk[b]) =>
                  LET old_map == chk[b].old_watchpoints_map
                      new == chk[b].new_watchpoints
                  IN  \/ /\ chk'[b].pc = "failed"
                         /\ chk'[b].error \in {"commit change", "commit timestamp"}
                      \/ /\ Len(changes'[b]) = Len(changes[b]) + 1
                         /\ Last(changes'[b]).watchpoint = chk[b].i
                         /\ Last(changes'[b]).old_value = old_map[new[chk[b].i].field_name]
                         /\ Last(changes'[b]).new_value = new[chk[b].i].field_value
                         /\ GoesOnAfter(b, old_map, new, chk[b].i)]_vars

\* Two fields of the extraction changed, the second listed of the old
\* snapshot first: the changes are in the order of the new extraction.
C26_Witness ==
    /\ Compared(1)
    /\ Last(pre[1].snapshots).watchpoints = << Wp("price", "$10"), Wp("title", "$10") >>
    /\ Last(snapshots[1]).watchpoints = << Wp("title", "$9"), Wp("price", "$9") >>
    /\ Len(NewChanges(1)) = 2
    /\ NewChanges(1)[1].field_name = "title"
    /\ NewChanges(1)[2].field_name = "price"

\* The value of the last row of the given name among rows, in the order they
\* were written.
LastWritten(rows, name) ==
    LET k == CHOOSE k \in DOMAIN rows :
                /\ rows[k].field_name = name
                /\ \A m \in DOMAIN rows : rows[m].field_name = name => m <= k
    IN  rows[k].field_value

\* C27: the field sets of snapshots are name-unique.  No persisted snapshot
\* has two fields of one name, and the old value of every change of a check
\* is the value last written for that name in the prior snapshot.
C27_SnapshotFieldsNameUnique ==
    \A b \in Bookmarks :
        /\ \A n \in DOMAIN snapshots[b] :
              \A j, k \in DOMAIN snapshots[b][n].watchpoints :
                  snapshots[b][n].watchpoints[j].field_name =
                      snapshots[b][n].watchpoints[k].field_name => j = k
        /\ \A k \in DOMAIN NewChanges(b) :
              NewChanges(b)[k].old_value =
                  LastWritten(Last(pre[b].snapshots).watchpoints, NewChanges(b)[k].field_name)

\* C27, the second half alone: the old value of every change of a check is
\* the value last written for that name in the prior snapshot.
C27_OldValueLastWritten ==
    \A b \in Bookmarks :
        \A k \in DOMAIN NewChanges(b) :
            NewChanges(b)[k].old_value =
                LastWritten(Last(pre[b].snapshots).watchpoints, NewChanges(b)[k].field_name)

\* The states a check may be in right after each of its states.
StepsAfter(pc) ==
    CASE pc = "fetching"   -> {"extracting", "done", "failed"}
      [] pc = "extracting" -> {"scoring", "done", "failed"}
      [] pc = "scoring"    -> {"scoring", "generating", "done", "failed"}
      [] pc = "generating" -> {"sending", "done", "failed"}
      [] pc = "sending"    -> {"done", "failed"}
      [] OTHER             -> {"idle", "fetching"}

\* What one step does to the check of b and to its rows, by the state the
\* check is in.
OrderedStep(b) ==
    LET pc == chk[b].pc
        new == chk'[b].new_snapshot
    IN  /\ chk'[b].pc # pc => chk'[b].pc \in StepsAfter(pc)
        \* the snapshot is appended by the step that ends the fetch
        /\ snapshots'[b] # snapshots[b] =>
              \/ /\ pc = "fetching"
                 /\ scrapes'[b] # scrapes[b]
                 /\ Len(snapshots'[b]) = Len(snapshots[b]) + 1
                 /\ Last(snapshots'[b]).watchpoints = <<>>
                 /\ Last(snapshots'[b]).content_hash = Last(scrapes'[b])
              \* its fields by the step that ends the extraction
              \/ /\ pc = "extracting"
                 /\ Len(snapshots'[b]) = Len(snapshots[b])
                 /\ \A n \in 1..(Len(snapshots[b]) - 1) : snapshots'[b][n] = snapshots[b][n]
        \* the diff starts with the snapshot and its fields persisted
        /\ (pc = "extracting" /\ chk'[b].pc = "scoring") =>
              /\ new = Len(snapshots'[b])
              /\ snapshots'[b][new].watchpoints = chk'[b].new_watchpoints
        \* changes are persisted by the scoring steps, one each
        /\ changes'[b] # changes[b] =>
              /\ pc = "scoring"
              /\ Len(changes'[b]) = Len(changes[b]) + 1
        \* the notification decision comes with every change persisted
        /\ chk'[b].pc = "generating" =>
              Len(NewChanges(b)') =
                  Cardinality(DifferingAfter(chk[b].old_watchpoints_map,
                                             chk[b].new_watchpoints, 0))
        \* the notification is persisted by the step that ends the generation,
        \* which also hands it to send_notification
        /\ notifications'[b] # notifications[b] =>
              /\ pc = "generating"
              /\ Len(notifications'[b]) = Len(notifications[b]) + 1
        /\ (dlv' # dlv /\ dlv'.caller = b /\ dlv.caller # b) =>
              /\ pc = "generating"
              /\ dlv'.notification = Len(notifications'[b])
              /\ dlv'.notification = Len(notifications[b]) + 1
        /\ (dlv' # dlv /\ dlv.pc = "sending" /\ dlv.caller = b) => pc = "sending"
        \* the timestamp is written by the step that ends the check
        /\ bookmarks'[b] # bookmarks[b] =>
              /\ pc \in {"fetching", "extracting", "scoring", "generating", "sending"}
              /\ chk'[b].pc = "done"
              /\ bookmarks'[b] = [bookmarks[b] EXCEPT !.last_checked_at = Some(now)]

\* C28: the steps of one check are strictly ordered.  The check passes from
\* fetching to extracting to scoring to generating to sending, leaving out
\* only steps it has no use for and never going back; the snapshot is
\* appended when the fetch has ended, its fields when the extraction has
\* ended and before the diff, each change in its scoring step and all of
\* them before the notification decision, the notification before it is
\* handed to send_notification, and the timestamp in the step that ends the
\* check.
C28_StepsOrdered == [][\A b \in Bookmarks : OrderedStep(b)]_vars

\* A check that went through every step: two changes, a notification, a
\* delivery to a connection, the timestamp.
C28_Witness ==
    /\ chk[1].pc = "done"
    /\ Len(NewSnapshots(1)) = 1
    /\ Len(NewChanges(1)) = 2
    /\ Len(NewNotifications(1)) = 1
    /\ dlv.caller = 1
    /\ dlv.pc = "done"
    /\ dlv.sent # <<>>
    /\ bookmarks[1].last_checked_at = Some(now)

\* The step appends to the changes of item b a change of the check whose
\* locals are l: it is attached to a field of that check's new snapshot and
\* has that field's name and value, and its old value is that of a field of
\* that name of the snapshot the check found as the latest, an earlier one.
ChangeOfCheck(b, l) ==
    LET c == Last(changes'[b])
    IN  /\ Len(changes'[b]) = Len(changes[b]) + 1
        /\ SubSeq(changes'[b], 1, Len(changes[b])) = changes[b]
        /\ l.pc = "scoring"
        /\ c.snapshot = l.new_snapshot
        /\ 0 < l.last_snapshot /\ l.last_snapshot < l.new_snapshot
        /\ c.watchpoint \in DOMAIN snapshots[b][c.snapshot].watchpoints
        /\ snapshots[b][c.snapshot].watchpoints[c.watchpoint].field_name = c.field_name
        /\ snapshots[b][c.snapshot].watchpoints[c.watchpoint].field_value = c.new_value
        /\ \E k \in DOMAIN snapshots[b][l.last_snapshot].watchpoints :
              /\ snapshots[b][l.last_snapshot].watchpoints[k].field_name = c.field_name
              /\ snapshots[b][l.last_snapshot].watchpoints[k].field_value = c.old_value

\* Every change a step adds is a change of the check that took the step.
ChangesOfTheirCheck ==
    \A b \in Bookmarks :
        changes'[b] # changes[b] =>
            IF manual' # manual
            THEN manual.bookmark_id = b /\ ChangeOfCheck(b, manual.l)
            ELSE ChangeOfCheck(b, chk[b])

\* No step alters a persisted snapshot or a persisted field: snapshots are
\* appended, and fields are added only to a snapshot that has none yet, by
\* the check that created it, as its extraction ends.
HistoryKept ==
    \A b \in Bookmarks :
        /\ Len(snapshots'[b]) >= Len(snapshots[b])
        /\ \A n \in DOMAIN snapshots[b] :
              \/ snapshots'[b][n] = snapshots[b][n]
              \/ /\ snapshots'[b][n] =
                        [snapshots[b][n] EXCEPT !.watchpoints = snapshots'[b][n].watchpoints]
                 /\ snapshots[b][n].watchpoints = <<>>
                 /\ IF manual' # manual
                    THEN /\ manual.bookmark_id = b
                         /\ manual.l.pc = "extracting"
                         /\ manual.l.new_snapshot = n
                    ELSE /\ chk[b].pc = "extracting"
                         /\ chk[b].new_snapshot = n

\* The step ends the extraction of a check: the new snapshot of that check
\* has exactly the fields extracted.
FieldsAsExtracted ==
    \A failed \in BOOLEAN, answer \in WatchpointLists \cup OverlapWatchpointLists :
        /\ \A b \in Bookmarks :
              (\E ok1, ok2 \in BOOLEAN : Extracted(b, failed, answer, ok1, ok2)) =>
                  snapshots'[b][chk[b].new_snapshot].watchpoints =
                      ExtractWatchpoints(chk[b].scraped.content, failed, answer)
        /\ (\E ok1, ok2 \in BOOLEAN : ManualExtracted(failed, answer, ok1, ok2)) =>
              snapshots'[manual.bookmark_id][manual.l.new_snapshot].watchpoints =
                  ExtractWatchpoints(manual.l.scraped.content, failed, answer)

\* The same, but for a check that failed on the commit of its fields: its
\* snapshot stays without any.
FieldsAsExtractedOrNone ==
    \A failed \in BOOLEAN, answer \in WatchpointLists \cup OverlapWatchpointLists :
        /\ \A b \in Bookmarks :
              (\E ok1, ok2 \in BOOLEAN : Extracted(b, failed, answer, ok1, ok2)) =>
                  \/ snapshots'[b][chk[b].new_snapshot].watchpoints =
                        ExtractWatchpoints(chk[b].scraped.content, failed, answer)
                  \/ /\ snapshots'[b][chk[b].new_snapshot].watchpoints = <<>>
                     /\ chk'[b].pc = "failed"
                     /\ chk'[b].error = "commit watchpoints"
        /\ (\E ok1, ok2 \in BOOLEAN : ManualExtracted(failed, answer, ok1, ok2)) =>
              \/ snapshots'[manual.bookmark_id][manual.l.new_snapshot].watchpoints =
                    ExtractWatchpoints(manual.l.scraped.content, failed, answer)
              \/ /\ snapshots'[manual.bookmark_id][manual.l.new_snapshot].watchpoints = <<>>
                 /\ manual'.l.pc = "failed"
                 /\ manual'.l.error = "commit watchpoints"

\* A check of a tick and a triggered check of one item are both under way.
Overlapping ==
    \E b \in Bookmarks :
        /\ Running(b)
        /\ manual.bookmark_id = b
        /\ manual.l.pc \in {"fetching", "extracting", "scoring", "generating", "sending"}

\* A check that ends its extraction and reads the fields of the snapshot it
\* found as the latest reads a snapshot whose own check has persisted them.
ComparesWithFields ==
    /\ (/\ chk[1].pc = "extracting"
        /\ chk'[1].pc \notin {"extracting", "failed"}
        /\ chk[1].last_snapshot # 0)
         => ~(/\ manual.bookmark_id = 1
              /\ manual.l.pc = "extracting"
              /\ manual.l.new_snapshot = chk[1].last_snapshot)
    /\ (/\ manual.bookmark_id = 1
        /\ manual.l.pc = "extracting"
        /\ manual'.l.pc \notin {"extracting", "failed"}
        /\ manual.l.last_snapshot # 0)
         => ~(/\ chk[1].pc = "extracting"
              /\ chk[1].new_snapshot = manual.l.last_snapshot)

\* C30: two overlapping checks of the same item do not corrupt history.  In
\* every step taken while a check of a tick and a triggered check of one item
\* are both under way, the snapshot of a check whose extraction ends gets
\* exactly the fields that check extracted, the snapshot a check compares
\* with carries the fields of the check that created it, every change added is attached
\* to a field of the new snapshot of the check that created it, with its old
\* value from the snapshot that check found as the latest, and no persisted
\* snapshot or field is altered.
C30_OverlapKeepsHistory ==
    [][Overlapping => (/\ FieldsAsExtracted
                       /\ ComparesWithFields
                       /\ ChangesOfTheirCheck
                       /\ HistoryKept)]_vars

\* What holds of every step, overlapping or not: C30 but for the snapshot
\* whose fields are not persisted, either not yet (its check is still
\* extracting) or never (the commit of its fields failed).
OverlapKeepsHistoryButFailedCommit ==
    [][FieldsAsExtractedOrNone /\ ChangesOfTheirCheck /\ HistoryKept]_vars

\* Both checks of the item are in their diff at once, each with a snapshot of
\* its own, the later one comparing with the earlier one's.
BothDiffing ==
    /\ chk[1].pc = "scoring"
    /\ manual.bookmark_id = 1
    /\ manual.l.pc = "scoring"
    /\ chk[1].new_snapshot # manual.l.new_snapshot
    /\ chk[1].new_snapshot = manual.l.last_snapshot
         \/ manual.l.new_snapshot = chk[1].last_snapshot

\* The triggered check has completed after comparing its snapshot with the
\* snapshot of the tick's check, whose fields are not persisted yet: it found
\* nothing to compare and recorded no change.
ComparedWithFieldless ==
    /\ chk[1].pc = "extracting"
    /\ manual.bookmark_id = 1
    /\ manual.l.pc = "done"
    /\ Len(snapshots[1]) = chk[1].new_snapshot + 1
    /\ snapshots[1][chk[1].new_snapshot].watchpoints = <<>>
    /\ Last(snapshots[1]).watchpoints = << Wp("price", "$9") >>
    /\ snapshots[1][chk[1].last_snapshot].watchpoints = << Wp("price", "$10") >>
    /\ changes[1] = <<>>

\* Was the connection c registered under the delivery's user from the call
\* of the delivery until now?  A websocket registers once (main.py:144), so
\* it was when it is in the list read at the call and in today's list.
RegisteredThroughout(c) ==
    /\ c \in Range(dlv.at_call)
    /\ c \in Range(active_connections[dlv.user_id])

\* C31 (as claimed): once a delivery has returned, every connection of its
\* user that stayed registered for the whole delivery, and no send to which
\* raised, has been sent the message exactly once, whatever other
\* connections of the user were registered or unregistered meanwhile.
C31_ConcurrentRegistryNoLoss ==
    dlv.pc = "done" =>
        \A c \in Connections :
            (/\ RegisteredThroughout(c)
             /\ \A k \in DOMAIN dlv.sent : SentTo[k] = c => dlv.sent[k].ok)
            => Cardinality({ k \in DOMAIN dlv.sent : SentTo[k] = c }) = 1

\* What holds when registrations change during a delivery: no connection is
\* sent the message twice, and none registered under another user gets it.
NoConnectionSentTwice ==
    \A c \in Connections :
        /\ Cardinality({ k \in DOMAIN dlv.sent : SentTo[k] = c }) <= 1
        /\ (\E k \in DOMAIN dlv.sent : SentTo[k] = c) => PathUser(c) = dlv.user_id

\* The delivery to alice's connections 1, 2, 3 returned after the first of
\* them was unregistered during its own send: the third got the message,
\* the second, still registered, did not.
SkippedByRemoval ==
    /\ dlv.pc = "done"
    /\ dlv.at_call = << 1, 2, 3 >>
    /\ active_connections["alice"] = << 2, 3 >>
    /\ SentTo = << 1, 3 >>

\* The snapshot row itself: what monitor.py:60-65 stores in it.
SnapshotRow(s) == [content_hash |-> s.content_hash, extracted_content |-> s.extracted_content]

\* In a step, every snapshot of item b that was persisted stays, at its
\* place, with its row and its fields; the one exception is the snapshot the
\* running check of b has just created, which gets its fields once, from
\* that check (monitor.py:78-90).
PersistedSnapshotsKept(b) ==
    /\ Len(snapshots'[b]) >= Len(snapshots[b])
    /\ \A n \in DOMAIN snapshots[b] :
          /\ SnapshotRow(snapshots'[b][n]) = SnapshotRow(snapshots[b][n])
          /\ \/ snapshots'[b][n].watchpoints = snapshots[b][n].watchpoints
             \/ /\ chk[b].pc = "extracting"
                /\ chk[b].new_snapshot = n
                /\ snapshots[b][n].watchpoints = <<>>

\* C32: snapshots are append-only.  No step of a check changes or removes a
\* persisted snapshot (its hash, content or fields, the fields being stored
\* once by the check that creates it); the snapshots of an item only grow in
\* number; and from its start to its end one check adds at most one.
C32_SnapshotsAppendOnly ==
    /\ [][\A b \in Bookmarks : PersistedSnapshotsKept(b)]_vars
    /\ [](\A b \in Bookmarks :
            chk[b].pc # "idle" =>
                /\ Len(snapshots[b]) <= Len(pre[b].snapshots) + 1
                /\ SubSeq(snapshots[b], 1, Len(pre[b].snapshots)) = pre[b].snapshots)

\* C32 witness: the second check of an item that had a snapshot has
\* completed; the item has three snapshots, each with fields, the two
\* earlier ones as they were when this check started.
C32_Witness ==
    /\ chk[1].pc = "done"
    /\ Len(snapshots[1]) = 3
    /\ Len(pre[1].snapshots) = 2
    /\ \A n \in 1..3 : snapshots[1][n].watchpoints # <<>>
    /\ changes[1] # <<>>

\* The check of item b has failed after its fetch returned content that
\* differed from the latest snapshot the item had.
FailedOnChangedContent(b) ==
    /\ chk[b].pc = "failed"
    /\ chk[b].error # "scrape"
    /\ pre[b].snapshots # <<>>
    /\ scrapes[b] # <<>>
    /\ Last(scrapes[b]) # Last(pre[b].snapshots).content_hash

\* C33 (as claimed): a failed check does not make its change invisible to
\* the next one.  When a check has failed after fetching changed content,
\* that content is still new to the store: the item's latest snapshot does
\* not carry its hash, so a later check that fetches the same content does
\* not take the no-change return of monitor.py:50-55 but goes on to the
\* extraction, the diff and the scoring.
C33_FailedCheckLosesNoChange ==
    \A b \in Bookmarks :
        FailedOnChangedContent(b) => Last(snapshots[b]).content_hash # Last(scrapes[b])

\* The check after a failed one has fetched the same content and returned
\* by the no-change path: the snapshot the failed check left is the latest,
\* without fields, and the item is stamped as checked with no change and no
\* notification recorded for the new content.
AbsorbedByFastPath ==
    /\ chk[1].pc = "done"
    /\ ticks = 2
    /\ snapshots[1] = pre[1].snapshots
    /\ Len(snapshots[1]) = 2
    /\ scrapes[1] = << snapshots[1][2].content_hash >>
    /\ snapshots[1][1].watchpoints = << Wp("price", "$10") >>
    /\ snapshots[1][2].watchpoints = <<>>
    /\ changes[1] = <<>>
    /\ notifications[1] = <<>>
    /\ bookmarks[1].last_checked_at = Some(now)

\* The locals l of a check of item 1 that goes on from its extraction to
\* the diff in this step (l2: its locals after the step).
StartsDiff(l, l2) ==
    /\ l.pc = "extracting"
    /\ l2.pc \notin {"extracting", "failed"}
    /\ l.last_snapshot # 0

\* The snapshot the check compares with is the one created last before its
\* own.
PredecessorIsLatestEarlier(l) == l.last_snapshot = l.new_snapshot - 1

\* The fields of the snapshot the check compares with are persisted.  Every
\* answer of the extractor has a field here, so a snapshot without fields is
\* one whose fields were not stored (yet, or at all).
PredecessorIsComplete(l) == snapshots[1][l.last_snapshot].watchpoints # <<>>

\* C34 (as claimed): whenever a check runs the diff, the snapshot it
\* compares with is the most recently created earlier snapshot of the item
\* and the fields of that snapshot are persisted when the check reads them,
\* in every interleaving of a tick's check and a triggered check of the item.
C34_DiffAgainstCompletePredecessor ==
    [][/\ StartsDiff(chk[1], chk'[1]) =>
            (PredecessorIsLatestEarlier(chk[1]) /\ PredecessorIsComplete(chk[1]))
       /\ (manual.bookmark_id = 1 /\ StartsDiff(manual.l, manual'.l)) =>
            (PredecessorIsLatestEarlier(manual.l) /\ PredecessorIsComplete(manual.l))]_vars

\* The half of C34 that holds: the snapshot compared with is always the one
\* created last before the check's own.
DiffAgainstLatestEarlier ==
    [][/\ StartsDiff(chk[1], chk'[1]) => PredecessorIsLatestEarlier(chk[1])
       /\ (manual.bookmark_id = 1 /\ StartsDiff(manual.l, manual'.l)) =>
            PredecessorIsLatestEarlier(manual.l)]_vars

\* The check of item a fails in this step.
FailsNow(a) == chk[a].pc # "failed" /\ chk'[a].pc = "failed"

\* C35: the checks of a tick, which share the tick's session, are isolated
\* from each other's failures.  In the step in which the check of one item
\* fails and rolls back, the rows of every other item whose check is in
\* flight (snapshots with their fields, changes, notifications,
\* last-checked) and the locals that check goes on with are left as they
\* were, so what it has persisted stays and what it goes on to persist is
\* what it would have persisted without the failure.
C35_ChecksIsolated ==
    [][\A a \in Bookmarks : FailsNow(a) =>
        \A b \in Bookmarks \ {a} :
            Running(b) => (Rows(b)' = Rows(b) /\ chk'[b] = chk[b])]_vars

\* C35 witness: the check of item 1 has failed and rolled back; the check of
\* item 2, in the same tick, is past its commits of a snapshot, its fields
\* and a change, all of which are persisted, and awaits the delivery.
C35_Witness ==
    /\ chk[1].pc = "failed"
    /\ chk[2].pc = "sending"
    /\ {1, 2} \subseteq tick.bookmarks_to_check
    /\ Len(snapshots[2]) = Len(pre[2].snapshots) + 1
    /\ Last(snapshots[2]).watchpoints # <<>>
    /\ Len(changes[2]) = Len(pre[2].changes) + 1
    /\ Len(notifications[2]) = Len(pre[2].notifications) + 1

\* C36: consecutive snapshots differ.  For every item, no two snapshots
\* that are adjacent in creation order have the same content hash, whatever
\* the sequence and interleaving of the tick's checks and a triggered check.
C36_ConsecutiveSnapshotsDiffer ==
    \A b \in Bookmarks :
        \A n \in 1..(Len(snapshots[b]) - 1) :
            snapshots[b][n].content_hash # snapshots[b][n + 1].content_hash

\* C36 witness: the tick's check and a triggered check of item 1 have each
\* appended a snapshot and both await their extraction; the item has three
\* snapshots.
C36_Witness ==
    /\ chk[1].pc = "extracting"
    /\ manual.bookmark_id = 1
    /\ manual.l.pc = "extracting"
    /\ Len(snapshots[1]) = 3
    /\ {chk[1].new_snapshot, manual.l.new_snapshot} = {2, 3}

\* C37: notifications stay with the item's owner.  Every notification row
\* of an item carries the user_id of the item's owner and the item's id; the
\* delivery a check starts is addressed to that owner, and every websocket
\* it sends to (or is sending to) is one registered under the owner, never
\* one registered under another user.
C37_NotificationsStayWithOwner ==
    /\ \A b \in Bookmarks : \A k \in DOMAIN notifications[b] :
          /\ notifications[b][k].user_id = bookmarks[b].user_id
          /\ notifications[b][k].bookmark_id = b
    /\ dlv.caller # 0 =>
          /\ dlv.user_id = bookmarks[dlv.caller].user_id
          /\ \A k \in DOMAIN dlv.sent :
                /\ PathUser(SentTo[k]) = bookmarks[dlv.caller].user_id
                /\ \A v \in Users \ {bookmarks[dlv.caller].user_id} :
                      SentTo[k] \notin Range(active_connections[v])
          /\ dlv.pc = "sending" => PathUser(dlv.connection) = bookmarks[dlv.caller].user_id

\* C37 witness: the check of alice's item has delivered its notification to
\* both of her connections while bob's connection was registered.
C37_Witness ==
    /\ dlv.caller = 1
    /\ dlv.pc = "done"
    /\ Len(dlv.sent) = 2
    /\ \A k \in DOMAIN dlv.sent : dlv.sent[k].ok
    /\ active_connections["bob"] = << 4 >>
    /\ Len(notifications[1]) = 1
    /\ notifications[1][1].user_id = "alice"

====
